---- MODULE Spec2Model ----
(***************************************************************************)
(* Model of the place pipeline: the merge helpers of enrichDocuments.js    *)
(* (mergeRates, mergeTags, mergeRepeatable, arraysEqual) with the          *)
(* JavaScript conversions they rest on, the repeatable components of the   *)
(* update payload, the item loop and the update of enrichDocuments, the    *)
(* photo upload and the upsert of syncPlace.js, the block parser and the   *)
(* main loop of batchAddPlaces.js, and the main loop of                    *)
(* batchUpdateEnrichment.js.                                               *)
(*                                                                         *)
(* JavaScript values are tagged records.  A JavaScript string is a         *)
(* sequence of one-character strings, so that trim(), toLowerCase() and    *)
(* JSON.stringify are computed character by character.                     *)
(***************************************************************************)
EXTENDS Integers, Sequences, FiniteSets, TLC

\* A call of a merge helper: its arguments, its position and its outcome.
VARIABLES fn, existing, incoming, pc, result, again

\* enrichDocuments building the repeatable components of one place's payload.
VARIABLES current, item, payload, epc

\* syncPlace calls against the CMS: the places the CMS holds per slug, and
\* the slug, position, lookup result and write requests of the current call.
VARIABLES cms, spc, sslug, sfound, swrites, ncalls

\* The main loop of batchAddPlaces: the parsed places, the loop's locals, the
\* photo files on disk and the sequence of stage events.
VARIABLES places, idx, bpc, seenSlugs, failures, successCount, folder, disk, events

\* parsePlacesBlocks: the pieces written in the batch file, the file's text,
\* the blocks split from it, the places returned and the call's position.
VARIABLES pieces, raw, blocks, results, ppc

\* batchUpdateEnrichment: the items read from the file, the main loop's
\* locals, the abort signal of safeUpdate, the requests sent to the CMS and
\* the two outcome lists.
VARIABLES placeItems, ui, upc, attempt, aborted, placeDocId, requests, updated, failed

\* A call of enrichDocuments: the place items of the enrichment input, the
\* slug of place.json, the loop's position, the PUT requests sent and the
\* list of updated slugs.
VARIABLES enrichment, placeSlug, di, dpc, puts, updatedSlugs

\* The photos of a syncPlace call: the photos listed in place.json, the files
\* of the folder, the loop's locals, the outcome of each photo and the save
\* requests sent.
VARIABLES harvestedPhotos, photoFiles, photoIndex, phpc, photos, coverPhotoId, uploads, saves

mergeVars == <<fn, existing, incoming, pc, result, again>>
enrichVars == <<current, item, payload, epc>>
syncVars == <<cms, spc, sslug, sfound, swrites, ncalls>>
batchVars == <<places, idx, bpc, seenSlugs, failures, successCount, folder, disk, events>>
parseVars == <<pieces, raw, blocks, results, ppc>>
updateVars == <<placeItems, ui, upc, attempt, aborted, placeDocId, requests, updated, failed>>
docsVars == <<enrichment, placeSlug, di, dpc, puts, updatedSlugs>>
photoVars == <<harvestedPhotos, photoFiles, photoIndex, phpc, photos, coverPhotoId, uploads, saves>>

vars == <<mergeVars, enrichVars, syncVars, batchVars, parseVars, updateVars, docsVars, photoVars>>

\* The parts of the state that a specification of another part leaves alone.
MergeIdle ==
  /\ fn = "none"
  /\ existing = <<>>
  /\ incoming = <<>>
  /\ pc = "idle"
  /\ result = [threw |-> FALSE, value |-> <<>>]
  /\ again = [threw |-> FALSE, value |-> <<>>]
EnrichIdle ==
  /\ current = <<>>
  /\ item = <<>>
  /\ payload = <<>>
  /\ epc = "idle"
SyncIdle ==
  /\ cms = <<>>
  /\ spc = "idle"
  /\ sslug = ""
  /\ sfound = FALSE
  /\ swrites = <<>>
  /\ ncalls = 0
ParseIdle ==
  /\ pieces = <<>>
  /\ raw = <<>>
  /\ blocks = <<>>
  /\ results = <<>>
  /\ ppc = "idle"
UpdateIdle ==
  /\ placeItems = <<>>
  /\ ui = 0
  /\ upc = "idle"
  /\ attempt = 0
  /\ aborted = FALSE
  /\ placeDocId = ""
  /\ requests = <<>>
  /\ updated = <<>>
  /\ failed = <<>>
DocsIdle ==
  /\ enrichment = <<>>
  /\ placeSlug = ""
  /\ di = 0
  /\ dpc = "idle"
  /\ puts = <<>>
  /\ updatedSlugs = <<>>
PhotosIdle ==
  /\ harvestedPhotos = <<>>
  /\ photoFiles = {}
  /\ photoIndex = 0
  /\ phpc = "idle"
  /\ photos = <<>>
  /\ coverPhotoId = 0
  /\ uploads = <<>>
  /\ saves = <<>>
BatchIdle ==
  /\ places = <<>>
  /\ idx = 0
  /\ bpc = "idle"
  /\ seenSlugs = {}
  /\ failures = <<>>
  /\ successCount = 0
  /\ folder = ""
  /\ disk = {}
  /\ events = <<>>

\* Longest existing / incoming array drawn by Init.
MaxExisting == 2
MaxIncoming == 2

-----------------------------------------------------------------------------
(* JavaScript values *)

JSNull == [t |-> "null"]
JSUndefined == [t |-> "undefined"]
NaN == [t |-> "NaN"]
Num(n) == [t |-> "number", n |-> n]
Str(s) == [t |-> "string", s |-> s]
Rate(a, u) == [t |-> "object", amount |-> a, unit |-> u]
Tag(l) == [t |-> "object", label |-> l]

\* v === null || v === undefined
IsNullish(v) == v.t \in {"null", "undefined"}

\* !r for the values an array entry takes here: null, undefined or an object.
IsFalsy(r) == IsNullish(r)

\* The outcome of a call: a returned array, or a thrown TypeError.
Return(v) == [threw |-> FALSE, value |-> v]
Throw == [threw |-> TRUE, value |-> <<>>]

-----------------------------------------------------------------------------
(* Strings *)

\* The lower-case letter of each ASCII upper-case letter.
LowerOf ==
  [A |-> "a", B |-> "b", C |-> "c", D |-> "d", E |-> "e", F |-> "f", G |-> "g",
   H |-> "h", I |-> "i", J |-> "j", K |-> "k", L |-> "l", M |-> "m", N |-> "n",
   O |-> "o", P |-> "p", Q |-> "q", R |-> "r", S |-> "s", T |-> "t", U |-> "u",
   V |-> "v", W |-> "w", X |-> "x", Y |-> "y", Z |-> "z"]
WhiteSpace == {" ", "\t", "\n", "\r"}
Digits == <<"0","1","2","3","4","5","6","7","8","9">>

\* String.prototype.toLowerCase on one ASCII character.
LowerChar(c) == IF c \in DOMAIN LowerOf THEN LowerOf[c] ELSE c

\* String.prototype.toLowerCase
toLowerCase(s) == [i \in 1..Len(s) |-> LowerChar(s[i])]

\* String.prototype.trim: drops the leading and the trailing white space.
trim(s) ==
  LET keep == {i \in 1..Len(s) : s[i] \notin WhiteSpace}
  IN IF keep = {} THEN <<>>
     ELSE LET lo == CHOOSE i \in keep : \A j \in keep : i <= j
              hi == CHOOSE i \in keep : \A j \in keep : j <= i
          IN SubSeq(s, lo, hi)

RECURSIVE NatToString(_)
\* The decimal digits of a natural number.
NatToString(n) ==
  IF n < 10 THEN <<Digits[n + 1]>>
  ELSE Append(NatToString(n \div 10), Digits[(n % 10) + 1])

\* Number.prototype.toString for an integer.
IntToString(n) == IF n < 0 THEN <<"-">> \o NatToString(-n) ELSE NatToString(n)

\* The value of a decimal digit character (-1 for any other character).
DigitValue(c) ==
  IF \E i \in 1..10 : Digits[i] = c
  THEN (CHOOSE i \in 1..10 : Digits[i] = c) - 1
  ELSE -1

RECURSIVE DigitsToNat(_)
\* The natural number written by a non-empty sequence of decimal digits.
DigitsToNat(s) ==
  IF Len(s) = 1 THEN DigitValue(s[1])
  ELSE 10 * DigitsToNat(SubSeq(s, 1, Len(s) - 1)) + DigitValue(s[Len(s)])

AllDigits(s) == Len(s) > 0 /\ \A i \in 1..Len(s) : DigitValue(s[i]) >= 0

\* JSToString(v), as used by a template literal and by .toString().
JSToString(v) ==
  CASE v.t = "null" -> <<"n","u","l","l">>
    [] v.t = "undefined" -> <<"u","n","d","e","f","i","n","e","d">>
    [] v.t = "NaN" -> <<"N","a","N">>
    [] v.t = "number" -> IntToString(v.n)
    [] v.t = "string" -> v.s

\* Number(v) of a string: white space is trimmed, the empty string is 0, an
\* optionally signed run of decimal digits is that integer, anything else is
\* NaN.  (Fractions, exponents, hex and Infinity literals are outside the
\* strings drawn by Init.)
StringToNumber(s) ==
  LET w == trim(s)
  IN IF w = <<>> THEN Num(0)
     ELSE IF AllDigits(w) THEN Num(DigitsToNat(w))
     ELSE IF w[1] \in {"-", "+"} /\ AllDigits(Tail(w))
          THEN Num(IF w[1] = "-" THEN 0 - DigitsToNat(Tail(w)) ELSE DigitsToNat(Tail(w)))
     ELSE NaN

\* Number(v)
Number(v) ==
  CASE v.t = "null" -> Num(0)
    [] v.t = "undefined" -> NaN
    [] v.t = "NaN" -> NaN
    [] v.t = "number" -> v
    [] v.t = "string" -> StringToNumber(v.s)

\* const normStr = (v) => (v ?? "").toString().trim();
normStr(v) == Str(trim(IF IsNullish(v) THEN <<>> ELSE JSToString(v)))

\* const normNum = (v) => (v === null || v === undefined || v === "" ? null : Number(v));
normNum(v) == IF IsNullish(v) \/ v = Str(<<>>) THEN JSNull ELSE Number(v)

-----------------------------------------------------------------------------
(* Map: an insertion-ordered sequence of [key, value] entries *)

NewMap == <<>>

MapHas(map, k) == \E i \in 1..Len(map) : map[i].key = k

\* MapSet as a push: the entry is appended whether or not the key is there.
MapSetAlwaysAppend(map, k, v) == Append(map, [key |-> k, value |-> v])

\* MapSet as delete-then-set: an overwritten key moves to the end.
MapSetMoveToEnd(map, k, v) ==
  Append(SelectSeq(map, LAMBDA e : e.key # k), [key |-> k, value |-> v])

\* Map.prototype.set: an existing key keeps its position and takes the new
\* value, a new key is appended.
MapSet(map, k, v) ==
  IF MapHas(map, k)
  THEN [i \in 1..Len(map) |-> IF map[i].key = k THEN [key |-> k, value |-> v] ELSE map[i]]
  ELSE Append(map, [key |-> k, value |-> v])

\* Array.from(map.values())
MapValues(map) == [i \in 1..Len(map) |-> map[i].value]

-----------------------------------------------------------------------------
(* mergeRates *)

\* rateKey without toLowerCase(): `${amount}|${unit}`
rateKeyCaseSensitive(amount, unit) == JSToString(amount) \o <<"|">> \o unit.s

\* `${amount}|${unit.toLowerCase()}`
rateKey(amount, unit) == JSToString(amount) \o <<"|">> \o toLowerCase(unit.s)

RECURSIVE mergeRatesExistingSkipEmpty(_, _, _)
\* mergeRatesExisting with the incoming loop's skip-on-empty test.
mergeRatesExistingSkipEmpty(map, arr, i) ==
  IF i > Len(arr) THEN Return(map)
  ELSE LET r == arr[i]
       IN IF IsNullish(r) THEN Throw
          ELSE LET amount == normNum(r.amount)
                   unit == normStr(r.unit)
               IN IF amount = JSNull /\ unit.s = <<>>
                  THEN mergeRatesExistingSkipEmpty(map, arr, i + 1)
                  ELSE mergeRatesExistingSkipEmpty(
                         MapSet(map, rateKey(amount, unit), Rate(amount, unit)), arr, i + 1)

RECURSIVE mergeRatesExisting(_, _, _)
\* for (const r of existing) { ... map.set(key, { amount, unit }) }
\* Reading r.amount of a null or undefined entry throws a TypeError.
mergeRatesExisting(map, arr, i) ==
  IF i > Len(arr) THEN Return(map)
  ELSE LET r == arr[i]
       IN IF IsNullish(r) THEN Throw
          ELSE LET amount == normNum(r.amount)
                   unit == normStr(r.unit)
               IN mergeRatesExisting(
                    MapSet(map, rateKey(amount, unit), Rate(amount, unit)), arr, i + 1)

RECURSIVE mergeRatesIncomingKeepExisting(_, _, _)
\* mergeRatesIncoming that sets a key only when the map does not have it.
mergeRatesIncomingKeepExisting(map, arr, i) ==
  IF i > Len(arr) THEN map
  ELSE LET r == arr[i]
       IN IF IsFalsy(r) THEN mergeRatesIncomingKeepExisting(map, arr, i + 1)
          ELSE LET amount == normNum(r.amount)
                   unit == normStr(r.unit)
               IN IF (amount = JSNull /\ unit.s = <<>>) \/ MapHas(map, rateKey(amount, unit))
                  THEN mergeRatesIncomingKeepExisting(map, arr, i + 1)
                  ELSE mergeRatesIncomingKeepExisting(
                         MapSet(map, rateKey(amount, unit), Rate(amount, unit)), arr, i + 1)

RECURSIVE mergeRatesIncomingStoreLower(_, _, _)
\* mergeRatesIncoming that stores the lower-cased unit of the key.
mergeRatesIncomingStoreLower(map, arr, i) ==
  IF i > Len(arr) THEN map
  ELSE LET r == arr[i]
       IN IF IsFalsy(r) THEN mergeRatesIncomingStoreLower(map, arr, i + 1)
          ELSE LET amount == normNum(r.amount)
                   unit == normStr(r.unit)
               IN IF amount = JSNull /\ unit.s = <<>>
                  THEN mergeRatesIncomingStoreLower(map, arr, i + 1)
                  ELSE mergeRatesIncomingStoreLower(
                         MapSet(map, rateKey(amount, unit),
                                Rate(amount, Str(toLowerCase(unit.s)))), arr, i + 1)

RECURSIVE mergeRatesIncomingNoSkip(_, _, _)
\* mergeRatesIncoming without `if (amount === null && !unit) continue`.
mergeRatesIncomingNoSkip(map, arr, i) ==
  IF i > Len(arr) THEN map
  ELSE LET r == arr[i]
       IN IF IsFalsy(r) THEN mergeRatesIncomingNoSkip(map, arr, i + 1)
          ELSE LET amount == normNum(r.amount)
                   unit == normStr(r.unit)
               IN mergeRatesIncomingNoSkip(
                    MapSet(map, rateKey(amount, unit), Rate(amount, unit)), arr, i + 1)

RECURSIVE mergeRatesIncoming(_, _, _)
\* for (const r of incoming) { if (!r) continue; ...
\*   if (amount === null && !unit) continue; map.set(key, { amount, unit }) }
mergeRatesIncoming(map, arr, i) ==
  IF i > Len(arr) THEN map
  ELSE LET r == arr[i]
       IN IF IsFalsy(r) THEN mergeRatesIncoming(map, arr, i + 1)
          ELSE LET amount == normNum(r.amount)
                   unit == normStr(r.unit)
               IN IF amount = JSNull /\ unit.s = <<>>
                  THEN mergeRatesIncoming(map, arr, i + 1)
                  ELSE mergeRatesIncoming(
                         MapSet(map, rateKey(amount, unit), Rate(amount, unit)), arr, i + 1)

\* function mergeRates(existing = [], incoming = [])
mergeRates(ex, inc) ==
  LET seeded == mergeRatesExisting(NewMap, ex, 1)
  IN IF seeded.threw THEN Throw
     ELSE Return(MapValues(mergeRatesIncoming(seeded.value, inc, 1)))

-----------------------------------------------------------------------------
(* mergeTags *)

RECURSIVE mergeTagsExistingKeepEmpty(_, _, _)
\* mergeTagsExisting without `if (label)`.
mergeTagsExistingKeepEmpty(set, arr, i) ==
  IF i > Len(arr) THEN Return(set)
  ELSE LET t == arr[i]
       IN IF IsNullish(t) THEN Throw
          ELSE LET label == normStr(t.label)
               IN mergeTagsExistingKeepEmpty(
                    MapSet(set, toLowerCase(label.s), Tag(label)), arr, i + 1)

RECURSIVE mergeTagsExisting(_, _, _)
\* for (const t of existing) { const label = normStr(t.label);
\*   if (label) set.set(label.toLowerCase(), { label }) }
mergeTagsExisting(set, arr, i) ==
  IF i > Len(arr) THEN Return(set)
  ELSE LET t == arr[i]
       IN IF IsNullish(t) THEN Throw
          ELSE LET label == normStr(t.label)
               IN mergeTagsExisting(
                    IF label.s # <<>> THEN MapSet(set, toLowerCase(label.s), Tag(label))
                    ELSE set,
                    arr, i + 1)

RECURSIVE mergeTagsIncomingKeepExisting(_, _, _)
\* mergeTagsIncoming that sets a key only when the map does not have it.
mergeTagsIncomingKeepExisting(set, arr, i) ==
  IF i > Len(arr) THEN set
  ELSE LET t == arr[i]
       IN IF IsFalsy(t) THEN mergeTagsIncomingKeepExisting(set, arr, i + 1)
          ELSE LET label == normStr(t.label)
               IN mergeTagsIncomingKeepExisting(
                    IF label.s # <<>> /\ ~MapHas(set, toLowerCase(label.s))
                    THEN MapSet(set, toLowerCase(label.s), Tag(label))
                    ELSE set,
                    arr, i + 1)

RECURSIVE mergeTagsIncoming(_, _, _)
\* for (const t of incoming) { if (!t) continue; const label = normStr(t.label);
\*   if (label) set.set(label.toLowerCase(), { label }) }
mergeTagsIncoming(set, arr, i) ==
  IF i > Len(arr) THEN set
  ELSE LET t == arr[i]
       IN IF IsFalsy(t) THEN mergeTagsIncoming(set, arr, i + 1)
          ELSE LET label == normStr(t.label)
               IN mergeTagsIncoming(
                    IF label.s # <<>> THEN MapSet(set, toLowerCase(label.s), Tag(label))
                    ELSE set,
                    arr, i + 1)

\* function mergeTags(existing = [], incoming = [])
mergeTags(ex, inc) ==
  LET seeded == mergeTagsExisting(NewMap, ex, 1)
  IN IF seeded.threw THEN Throw
     ELSE Return(MapValues(mergeTagsIncoming(seeded.value, inc, 1)))

-----------------------------------------------------------------------------
(* Inputs *)

S_night == <<"n","i","g","h","t">>
S_Night == <<"N","i","g","h","t">>
S_nightPadded == <<" ","n","i","g","h","t"," ">>
S_person == <<"p","e","r","s","o","n">>
S_150 == <<"1","5","0">>
S_abc == <<"a","b","c">>
S_blank == <<" "," ">>
S_wild == <<"w","i","l","d">>
S_Wild == <<"W","i","l","d">>
S_wildPadded == <<"\t","w","i","l","d"," ">>
S_river == <<"r","i","v","e","r">>
S_camp == <<"c","a","m","p">>

\* The entries of a rates array: a null entry, an entry that is empty after
\* normalisation, case and white-space variants of one unit, a numeric
\* string and a non-numeric string amount.
RateEntries ==
  { JSNull,
    Rate(JSUndefined, Str(S_blank)),
    Rate(Num(150), Str(S_night)),
    Rate(Num(150), Str(S_Night)),
    Rate(Str(S_150), Str(S_nightPadded)),
    Rate(Num(20), Str(S_person)),
    Rate(Str(S_abc), Str(<<>>)) }

\* The entries of a tags array: an undefined entry, a label that is empty
\* after trimming, case and white-space variants of one label, other labels.
TagEntries ==
  { JSUndefined,
    Tag(Str(S_blank)),
    Tag(Str(S_wild)),
    Tag(Str(S_Wild)),
    Tag(Str(S_wildPadded)),
    Tag(Str(S_river)),
    Tag(Str(S_camp)) }

SeqsUpTo(S, n) == UNION {[1..k -> S] : k \in 0..n}

-----------------------------------------------------------------------------
(* The calls *)

NoResult == Return(<<>>)

Init ==
  /\ fn \in {"mergeRates", "mergeTags"}
  /\ existing \in SeqsUpTo(IF fn = "mergeRates" THEN RateEntries ELSE TagEntries, MaxExisting)
  /\ incoming \in SeqsUpTo(IF fn = "mergeRates" THEN RateEntries ELSE TagEntries, MaxIncoming)
  /\ pc = "ready"
  /\ result = NoResult
  /\ again = NoResult
  /\ EnrichIdle /\ SyncIdle /\ BatchIdle /\ ParseIdle /\ UpdateIdle /\ DocsIdle /\ PhotosIdle

\* merged = mergeRates(currentRates, item.rates)
CallMergeRates ==
  /\ pc = "ready"
  /\ fn = "mergeRates"
  /\ result' = mergeRates(existing, incoming)
  /\ pc' = "returned"
  /\ UNCHANGED <<fn, existing, incoming, again>>
  /\ UNCHANGED <<enrichVars, syncVars, batchVars, parseVars, updateVars, docsVars, photoVars>>

\* merged = mergeTags(currentTags, incomingTags)
CallMergeTags ==
  /\ pc = "ready"
  /\ fn = "mergeTags"
  /\ result' = mergeTags(existing, incoming)
  /\ pc' = "returned"
  /\ UNCHANGED <<fn, existing, incoming, again>>
  /\ UNCHANGED <<enrichVars, syncVars, batchVars, parseVars, updateVars, docsVars, photoVars>>

\* The same incoming array merged into the collection a first merge returned
\* (the next run of the script over a place that was stored as merged).
CallMergeRatesAgain ==
  /\ pc = "returned"
  /\ fn = "mergeRates"
  /\ ~result.threw
  /\ again' = mergeRates(result.value, incoming)
  /\ pc' = "remerged"
  /\ UNCHANGED <<fn, existing, incoming, result>>
  /\ UNCHANGED <<enrichVars, syncVars, batchVars, parseVars, updateVars, docsVars, photoVars>>

CallMergeTagsAgain ==
  /\ pc = "returned"
  /\ fn = "mergeTags"
  /\ ~result.threw
  /\ again' = mergeTags(result.value, incoming)
  /\ pc' = "remerged"
  /\ UNCHANGED <<fn, existing, incoming, result>>
  /\ UNCHANGED <<enrichVars, syncVars, batchVars, parseVars, updateVars, docsVars, photoVars>>

Next ==
  \/ CallMergeRates
  \/ CallMergeTags
  \/ CallMergeRatesAgain
  \/ CallMergeTagsAgain

Spec == Init /\ [][Next]_vars

TypeOK ==
  /\ pc \in {"ready", "returned", "remerged"}
  /\ result.threw \in BOOLEAN

-----------------------------------------------------------------------------
(* mergeRepeatable *)

\* A highlight / unexpected entry; a property that is absent is undefined.
Note(ti, de) == [t |-> "object", title |-> ti, description |-> de]

\* const norm = (obj) => { const res = {};
\*   for (const k of keyFields) { if (obj[k] !== undefined) res[k] = normStr(obj[k]); }
\*   return res; }          with keyFields = ["title", "description"]
norm(obj) ==
  Note(IF obj.title # JSUndefined THEN normStr(obj.title) ELSE JSUndefined,
       IF obj.description # JSUndefined THEN normStr(obj.description) ELSE JSUndefined)

\* Object.keys(o).length
ObjectKeysLength(o) ==
  (IF o.title # JSUndefined THEN 1 ELSE 0) + (IF o.description # JSUndefined THEN 1 ELSE 0)

RECURSIVE mapNorm(_, _)
\* arr.map(norm); reading obj[k] of a null or undefined entry throws a TypeError.
mapNorm(arr, i) ==
  IF i > Len(arr) THEN Return(<<>>)
  ELSE IF IsNullish(arr[i]) THEN Throw
  ELSE LET rest == mapNorm(arr, i + 1)
       IN IF rest.threw THEN Throw ELSE Return(<<norm(arr[i])>> \o rest.value)

\* mergeRepeatable that appends the incoming entries to the existing ones.
mergeRepeatableAppend(ex, inc) ==
  LET mapped == mapNorm(inc, 1)
      exNorm == mapNorm(ex, 1)
  IN IF mapped.threw \/ exNorm.threw THEN Throw
     ELSE Return(exNorm.value \o SelectSeq(mapped.value, LAMBDA o : ObjectKeysLength(o) > 0))

\* function mergeRepeatable(existing = [], incoming = [], keyFields = ["title", "description"])
\*   const incomingNorm = incoming.map(norm).filter((o) => Object.keys(o).length > 0);
\*   return incomingNorm.length > 0 ? incomingNorm : existing.map(norm);
mergeRepeatable(ex, inc) ==
  LET mapped == mapNorm(inc, 1)
  IN IF mapped.threw THEN Throw
     ELSE LET incomingNorm == SelectSeq(mapped.value, LAMBDA o : ObjectKeysLength(o) > 0)
          IN IF Len(incomingNorm) > 0 THEN Return(incomingNorm) ELSE mapNorm(ex, 1)

S_A == <<"A">>
S_B == <<"B">>
S_x == <<"x">>
S_y == <<"y">>
S_APadded == <<" ","A"," ">>

\* The entries of a highlight / unexpected array: a null entry, an object
\* with no listed field, one whose listed fields are blank, the spec's two
\* examples and an entry with a padded title and no description.
NoteEntries ==
  { JSNull,
    Note(JSUndefined, JSUndefined),
    Note(Str(S_blank), Str(<<>>)),
    Note(Str(S_A), Str(S_x)),
    Note(Str(S_B), Str(S_y)),
    Note(Str(S_APadded), JSUndefined) }

InitNotes ==
  /\ fn = "mergeRepeatable"
  /\ existing \in SeqsUpTo(NoteEntries, MaxExisting)
  /\ incoming \in SeqsUpTo(NoteEntries, MaxIncoming)
  /\ pc = "ready"
  /\ result = NoResult
  /\ again = NoResult
  /\ EnrichIdle /\ SyncIdle /\ BatchIdle /\ ParseIdle /\ UpdateIdle /\ DocsIdle /\ PhotosIdle

\* payload.highlight = mergeRepeatable(currentHighlights, item.highlight, ["title", "description"])
CallMergeRepeatable ==
  /\ pc = "ready"
  /\ fn = "mergeRepeatable"
  /\ result' = mergeRepeatable(existing, incoming)
  /\ pc' = "returned"
  /\ UNCHANGED <<fn, existing, incoming, again>>
  /\ UNCHANGED <<enrichVars, syncVars, batchVars, parseVars, updateVars, docsVars, photoVars>>

NextNotes == CallMergeRepeatable

SpecNotes == InitNotes /\ [][NextNotes]_vars

-----------------------------------------------------------------------------
(* arraysEqual *)

\* A JavaScript object as JSON.stringify sees it: its own properties in the
\* order in which they were written.
Prop(k, v) == [k |-> k, v |-> v]
Obj(props) == [t |-> "object", props |-> props]

K_id == <<"i","d">>
K_amount == <<"a","m","o","u","n","t">>
K_unit == <<"u","n","i","t">>
K_label == <<"l","a","b","e","l">>
K_title == <<"t","i","t","l","e">>
K_description == <<"d","e","s","c","r","i","p","t","i","o","n">>

\* obj[k]: the value of the property, undefined when the object has none.
Get(o, k) ==
  IF \E i \in 1..Len(o.props) : o.props[i].k = k
  THEN o.props[CHOOSE i \in 1..Len(o.props) : o.props[i].k = k].v
  ELSE JSUndefined

\* The properties of the object literals the merge helpers build:
\* { amount, unit }, { label }, and res[k] = ... for each defined key field.
RateObject(r) == Obj(<<Prop(K_amount, r.amount), Prop(K_unit, r.unit)>>)
TagObject(e) == Obj(<<Prop(K_label, e.label)>>)
NoteObject(e) ==
  Obj((IF e.title # JSUndefined THEN <<Prop(K_title, e.title)>> ELSE <<>>)
        \o (IF e.description # JSUndefined THEN <<Prop(K_description, e.description)>> ELSE <<>>))

\* What r.amount / r.unit, t.label and obj[k] read from a stored object.
AsRate(o) == IF IsNullish(o) THEN o ELSE Rate(Get(o, K_amount), Get(o, K_unit))
AsTag(o) == IF IsNullish(o) THEN o ELSE Tag(Get(o, K_label))
AsNote(o) == IF IsNullish(o) THEN o ELSE Note(Get(o, K_title), Get(o, K_description))

\* The same, entry by entry of an array.
AsRates(seq) == [i \in 1..Len(seq) |-> AsRate(seq[i])]
AsTags(seq) == [i \in 1..Len(seq) |-> AsTag(seq[i])]
AsNotes(seq) == [i \in 1..Len(seq) |-> AsNote(seq[i])]
RateObjects(seq) == [i \in 1..Len(seq) |-> RateObject(seq[i])]
TagObjects(seq) == [i \in 1..Len(seq) |-> TagObject(seq[i])]
NoteObjects(seq) == [i \in 1..Len(seq) |-> NoteObject(seq[i])]

RECURSIVE QuoteChars(_)
\* The characters of a string inside the quotes JSON.stringify writes.
QuoteChars(s) ==
  IF s = <<>> THEN <<>>
  ELSE (IF Head(s) \in {"\"", "\\"} THEN <<"\\", Head(s)>> ELSE <<Head(s)>>)
         \o QuoteChars(Tail(s))

Quote(s) == <<"\"">> \o QuoteChars(s) \o <<"\"">>

\* JSON.stringify of a primitive: null and NaN are both written null.
JSONPrimitive(v) ==
  CASE v.t = "number" -> IntToString(v.n)
    [] v.t = "string" -> Quote(v.s)
    [] OTHER -> <<"n","u","l","l">>

RECURSIVE JSONProps(_, _)
\* The "key":value members of an object; a property holding undefined is
\* left out.
JSONProps(o, first) ==
  IF o = <<>> THEN <<>>
  ELSE IF Head(o).v = JSUndefined THEN JSONProps(Tail(o), first)
  ELSE (IF first THEN <<>> ELSE <<",">>)
         \o Quote(Head(o).k) \o <<":">> \o JSONPrimitive(Head(o).v)
         \o JSONProps(Tail(o), FALSE)

\* JSON.stringify of an array element: an object, or null for a nullish one.
JSONElement(e) ==
  IF e.t = "object" THEN <<"{">> \o JSONProps(e.props, TRUE) \o <<"}">>
  ELSE <<"n","u","l","l">>

RECURSIVE JSONElements(_, _)
JSONElements(a, first) ==
  IF a = <<>> THEN <<>>
  ELSE (IF first THEN <<>> ELSE <<",">>) \o JSONElement(Head(a)) \o JSONElements(Tail(a), FALSE)

\* JSON.stringify(a) of an array of objects.
JSONstringify(a) == <<"[">> \o JSONElements(a, TRUE) \o <<"]">>

\* function arraysEqual(a, b) { return JSON.stringify(a) === JSON.stringify(b); }
arraysEqual(a, b) == JSONstringify(a) = JSONstringify(b)

\* Objects to compare: a rate as mergeRates builds it, the same rate with its
\* fields written in the other order, with the id the CMS adds, with the
\* amount as a string, as null and as NaN, and a note.
O_rate == Obj(<<Prop(K_amount, Num(150)), Prop(K_unit, Str(S_night))>>)
O_rateSwapped == Obj(<<Prop(K_unit, Str(S_night)), Prop(K_amount, Num(150))>>)
O_rateId == Obj(<<Prop(K_id, Num(1)), Prop(K_amount, Num(150)), Prop(K_unit, Str(S_night))>>)
O_rateString == Obj(<<Prop(K_amount, Str(S_150)), Prop(K_unit, Str(S_night))>>)
O_rateNull == Obj(<<Prop(K_amount, JSNull), Prop(K_unit, Str(S_night))>>)
O_rateNaN == Obj(<<Prop(K_amount, NaN), Prop(K_unit, Str(S_night))>>)
O_note == Obj(<<Prop(K_title, Str(S_A)), Prop(K_description, Str(S_x))>>)

ObjEntries ==
  { O_rate, O_rateSwapped, O_rateId, O_rateString, O_rateNull, O_rateNaN, O_note }

InitEqual ==
  /\ fn = "arraysEqual"
  /\ existing \in SeqsUpTo(ObjEntries, MaxExisting)
  /\ incoming \in SeqsUpTo(ObjEntries, MaxIncoming)
  /\ pc = "ready"
  /\ result = NoResult
  /\ again = NoResult
  /\ EnrichIdle /\ SyncIdle /\ BatchIdle /\ ParseIdle /\ UpdateIdle /\ DocsIdle /\ PhotosIdle

\* arraysEqual(a, b), with a and b held in existing and incoming.
CallArraysEqual ==
  /\ pc = "ready"
  /\ fn = "arraysEqual"
  /\ result' = Return(arraysEqual(existing, incoming))
  /\ pc' = "returned"
  /\ UNCHANGED <<fn, existing, incoming, again>>
  /\ UNCHANGED <<enrichVars, syncVars, batchVars, parseVars, updateVars, docsVars, photoVars>>

NextEqual == CallArraysEqual

SpecEqual == InitEqual /\ [][NextEqual]_vars

-----------------------------------------------------------------------------
(* enrichDocuments: the repeatable components of the payload *)

\* An array held in a field of the item or of the payload; a field that is
\* not there reads undefined.
Arr(elems) == [t |-> "array", elems |-> elems]
IsArray(v) == v.t = "array"

RepeatableFields == {"rates", "tag", "highlight", "unexpected"}

O_tag == Obj(<<Prop(K_label, Str(S_wild))>>)

\* The collections stored on the place (attrs.rates || [], attrs.tag || [],
\* attrs.highlight || [], attrs.unexpected || []).
CurrentRates == { <<>>, <<O_rate>>, <<O_rateSwapped>>, <<O_rateId>> }
CurrentTags == { <<>>, <<O_tag>> }
CurrentNotes == { <<>>, <<O_note>> }

\* The fields of the item read from the enrichment file.
ItemRates ==
  { JSUndefined, Arr(<<>>),
    Arr(<<Rate(Num(150), Str(S_night))>>),
    Arr(<<Rate(Num(20), Str(S_person))>>) }
ItemTags ==
  { JSUndefined, Arr(<<>>), Arr(<<Tag(Str(S_wild))>>), Arr(<<Tag(Str(S_Wild))>>) }
ItemTag == { JSUndefined, Arr(<<Tag(Str(S_river))>>) }
ItemNotes ==
  { JSUndefined, Arr(<<>>),
    Arr(<<Note(Str(S_A), Str(S_x))>>),
    Arr(<<Note(Str(S_B), Str(S_y))>>) }

InitEnrich ==
  /\ MergeIdle /\ SyncIdle /\ BatchIdle /\ ParseIdle /\ UpdateIdle /\ DocsIdle /\ PhotosIdle
  /\ current \in [rates : CurrentRates, tag : CurrentTags,
                  highlight : CurrentNotes, unexpected : CurrentNotes]
  /\ item \in [rates : ItemRates, tags : ItemTags, tag : ItemTag,
               highlight : ItemNotes, unexpected : ItemNotes]
  /\ payload = [f \in RepeatableFields |-> JSUndefined]
  /\ epc = "rates"

\* if (Array.isArray(item.rates)) {
\*   const merged = mergeRates(currentRates, item.rates);
\*   if (!arraysEqual(merged, currentRates)) payload.rates = merged; }
BuildRates ==
  /\ epc = "rates"
  /\ LET merged == mergeRates(AsRates(current.rates), item.rates.elems)
         mergedObjs == RateObjects(merged.value)
     IN IF ~IsArray(item.rates)
        THEN epc' = "tags" /\ UNCHANGED payload
        ELSE IF merged.threw
        THEN epc' = "threw" /\ UNCHANGED payload
        ELSE /\ epc' = "tags"
             /\ payload' = IF ~arraysEqual(mergedObjs, current.rates)
                           THEN [payload EXCEPT !.rates = Arr(mergedObjs)]
                           ELSE payload
  /\ UNCHANGED <<current, item>>
  /\ UNCHANGED <<mergeVars, syncVars, batchVars, parseVars, updateVars, docsVars, photoVars>>

\* const incomingTags = Array.isArray(item.tags) ? item.tags
\*                    : Array.isArray(item.tag) ? item.tag : [];
incomingTagsOf(it) ==
  IF IsArray(it.tags) THEN it.tags.elems
  ELSE IF IsArray(it.tag) THEN it.tag.elems
  ELSE <<>>

\* if (incomingTags.length > 0) {
\*   const merged = mergeTags(currentTags, incomingTags);
\*   if (!arraysEqual(merged, currentTags)) payload.tag = merged; }
BuildTags ==
  /\ epc = "tags"
  /\ LET incomingTags == incomingTagsOf(item)
         merged == mergeTags(AsTags(current.tag), incomingTags)
         mergedObjs == TagObjects(merged.value)
     IN IF ~(Len(incomingTags) > 0)
        THEN epc' = "highlight" /\ UNCHANGED payload
        ELSE IF merged.threw
        THEN epc' = "threw" /\ UNCHANGED payload
        ELSE /\ epc' = "highlight"
             /\ payload' = IF ~arraysEqual(mergedObjs, current.tag)
                           THEN [payload EXCEPT !.tag = Arr(mergedObjs)]
                           ELSE payload
  /\ UNCHANGED <<current, item>>
  /\ UNCHANGED <<mergeVars, syncVars, batchVars, parseVars, updateVars, docsVars, photoVars>>

\* if (Array.isArray(item.highlight)) {
\*   payload.highlight = mergeRepeatable(currentHighlights, item.highlight, [...]); }
BuildHighlight ==
  /\ epc = "highlight"
  /\ LET merged == mergeRepeatable(AsNotes(current.highlight), item.highlight.elems)
     IN IF ~IsArray(item.highlight)
        THEN epc' = "unexpected" /\ UNCHANGED payload
        ELSE IF merged.threw
        THEN epc' = "threw" /\ UNCHANGED payload
        ELSE /\ epc' = "unexpected"
             /\ payload' = [payload EXCEPT !.highlight = Arr(NoteObjects(merged.value))]
  /\ UNCHANGED <<current, item>>
  /\ UNCHANGED <<mergeVars, syncVars, batchVars, parseVars, updateVars, docsVars, photoVars>>

\* if (Array.isArray(item.unexpected)) {
\*   payload.unexpected = mergeRepeatable(currentUnexpected, item.unexpected, [...]); }
BuildUnexpected ==
  /\ epc = "unexpected"
  /\ LET merged == mergeRepeatable(AsNotes(current.unexpected), item.unexpected.elems)
     IN IF ~IsArray(item.unexpected)
        THEN epc' = "done" /\ UNCHANGED payload
        ELSE IF merged.threw
        THEN epc' = "threw" /\ UNCHANGED payload
        ELSE /\ epc' = "done"
             /\ payload' = [payload EXCEPT !.unexpected = Arr(NoteObjects(merged.value))]
  /\ UNCHANGED <<current, item>>
  /\ UNCHANGED <<mergeVars, syncVars, batchVars, parseVars, updateVars, docsVars, photoVars>>

NextEnrich ==
  \/ BuildRates
  \/ BuildTags
  \/ BuildHighlight
  \/ BuildUnexpected

SpecEnrich == InitEnrich /\ [][NextEnrich]_vars

-----------------------------------------------------------------------------
(* syncPlace: upsert by slug *)

\* The number of sequential syncPlace calls followed.
MaxSyncCalls == 3

Slugs == {"addo", "kruger"}

\* The CMS holds zero or one place per slug before the first call.
InitSync ==
  /\ MergeIdle /\ EnrichIdle /\ BatchIdle /\ ParseIdle /\ UpdateIdle /\ DocsIdle /\ PhotosIdle
  /\ cms \in [Slugs -> {0, 1}]
  /\ spc = "idle"
  /\ sslug = ""
  /\ sfound = FALSE
  /\ swrites = <<>>
  /\ ncalls = 0

\* syncPlace(folderPath) is called once the previous call has ended.
SyncBegin ==
  /\ spc \in {"idle", "returned", "threw"}
  /\ ncalls < MaxSyncCalls
  /\ \E s \in Slugs : sslug' = s
  /\ spc' = "read"
  /\ sfound' = FALSE
  /\ swrites' = <<>>
  /\ ncalls' = ncalls + 1
  /\ UNCHANGED cms
  /\ UNCHANGED <<mergeVars, enrichVars, batchVars, parseVars, updateVars, docsVars, photoVars>>

\* place.json is read and parsed, the photos are uploaded and the payload is
\* built; the lookup request is sent.
ReadPlace ==
  /\ spc = "read"
  /\ spc' = "lookup"
  /\ UNCHANGED <<cms, sslug, sfound, swrites, ncalls>>
  /\ UNCHANGED <<mergeVars, enrichVars, batchVars, parseVars, updateVars, docsVars, photoVars>>

\* place.json is missing or is not JSON: the call throws.
ReadPlaceFails ==
  /\ spc = "read"
  /\ spc' = "threw"
  /\ UNCHANGED <<cms, sslug, sfound, swrites, ncalls>>
  /\ UNCHANGED <<mergeVars, enrichVars, batchVars, parseVars, updateVars, docsVars, photoVars>>

\* The CMS answers the lookup with the places that have the slug:
\* existing = checkJson.data?.[0].
LookupAnswersData ==
  /\ spc = "lookup"
  /\ sfound' = (cms[sslug] > 0)
  /\ spc' = "write"
  /\ UNCHANGED <<cms, sslug, swrites, ncalls>>
  /\ UNCHANGED <<mergeVars, enrichVars, batchVars, parseVars, updateVars, docsVars, photoVars>>

\* The CMS answers the lookup with an error body ({data: null, error: ...}
\* with a 4xx or 5xx status); checkRes.ok is not read, and
\* checkJson.data?.[0] is undefined.
LookupAnswersError ==
  /\ spc = "lookup"
  /\ sfound' = FALSE
  /\ spc' = "write"
  /\ UNCHANGED <<cms, sslug, swrites, ncalls>>
  /\ UNCHANGED <<mergeVars, enrichVars, batchVars, parseVars, updateVars, docsVars, photoVars>>

\* The lookup request is aborted or rejected, or its body is not JSON: the
\* call throws.
LookupThrows ==
  /\ spc = "lookup"
  /\ spc' = "threw"
  /\ UNCHANGED <<cms, sslug, sfound, swrites, ncalls>>
  /\ UNCHANGED <<mergeVars, enrichVars, batchVars, parseVars, updateVars, docsVars, photoVars>>

\* if (existing) PUT `${STRAPI_API_URL}/${docId}` else POST STRAPI_API_URL.
\* Each request is recorded with whether the CMS held the slug when it was
\* sent.
SendWrite ==
  /\ spc = "write"
  /\ swrites' = Append(swrites, [method |-> IF sfound THEN "PUT" ELSE "POST",
                                 existed |-> cms[sslug] > 0])
  /\ spc' = "respond"
  /\ UNCHANGED <<cms, sslug, sfound, ncalls>>
  /\ UNCHANGED <<mergeVars, enrichVars, batchVars, parseVars, updateVars, docsVars, photoVars>>

\* The CMS accepts the write: a POST creates a place, a PUT updates one.
WriteAccepted ==
  /\ spc = "respond"
  /\ cms' = IF swrites[Len(swrites)].method = "POST"
            THEN [cms EXCEPT ![sslug] = @ + 1]
            ELSE cms
  /\ spc' = "returned"
  /\ UNCHANGED <<sslug, sfound, swrites, ncalls>>
  /\ UNCHANGED <<mergeVars, enrichVars, batchVars, parseVars, updateVars, docsVars, photoVars>>

\* The CMS refuses the write, or its answer is not JSON: the call throws.
WriteRejected ==
  /\ spc = "respond"
  /\ spc' = "threw"
  /\ UNCHANGED <<cms, sslug, sfound, swrites, ncalls>>
  /\ UNCHANGED <<mergeVars, enrichVars, batchVars, parseVars, updateVars, docsVars, photoVars>>

NextSync ==
  \/ SyncBegin
  \/ ReadPlace
  \/ ReadPlaceFails
  \/ LookupAnswersData
  \/ LookupAnswersError
  \/ LookupThrows
  \/ SendWrite
  \/ WriteAccepted
  \/ WriteRejected

SpecSync == InitSync /\ [][NextSync]_vars

-----------------------------------------------------------------------------
(* batchAddPlaces: the main loop *)

\* The number of place entries in the batch file.
MaxPlaces == 3

\* const BATCH_DELAY_MS = Number(process.env.BATCH_DELAY_MS || 3000);
BATCH_DELAY_MS == 3000

S_addo == <<"a","d","d","o">>
S_addoPadded == <<"a","d","d","o"," ">>
S_kruger == <<"k","r","u","g","e","r">>
S_gid == <<"C","h","I","J">>
S_unknown == <<"(","u","n","k","n","o","w","n",")">>

\* A place entry of the batch file.
Place(slug, gid) == [slug |-> slug, google_place_id |-> gid]

\* Entries with a slug that is missing, plain, padded with white space or
\* different, and a google_place_id that is blank or given.
PlaceEntries ==
  { Place(s, g) : s \in {JSUndefined, Str(S_addo), Str(S_addoPadded), Str(S_kruger)},
                  g \in {Str(S_blank), Str(S_gid)} }

\* (v || "").trim()
trimOrEmpty(v) == IF IsNullish(v) \/ v = Str(<<>>) THEN <<>> ELSE trim(v.s)

\* The folder harvestPlace writes to and returns: Places/<name Google gives
\* for the id>.
FolderOf(gid) == <<"P","l","a","c","e","s","/">> \o gid

\* A failure record { slug, reason }.
Failure(slug, reason) == [slug |-> slug, reason |-> reason]

\* A step of the loop on the entry at index i.
Ev(e, i) == [e |-> e, idx |-> i]

\* hasDownloadedPhotos with the test left out.
hasDownloadedPhotosAlways(dsk, folderPath) == TRUE

\* hasDownloadedPhotos(folderPath): the folder holds a photo_<n>.jpg file.
\* disk is the set of folders that do.
hasDownloadedPhotos(dsk, folderPath) == folderPath \in dsk

\* The entry under work and its trimmed fields.
place == places[idx + 1]
slug == trimOrEmpty(place.slug)
googlePlaceId == trimOrEmpty(place.google_place_id)
total == Len(places)

InitBatch ==
  /\ MergeIdle /\ EnrichIdle /\ SyncIdle /\ ParseIdle /\ UpdateIdle /\ DocsIdle /\ PhotosIdle
  /\ places \in SeqsUpTo(PlaceEntries, MaxPlaces)
  /\ idx = 0
  /\ bpc = "loop"
  /\ seenSlugs = {}
  /\ failures = <<>>
  /\ successCount = 0
  /\ folder = <<>>
  /\ disk \in SUBSET {FolderOf(S_gid)}
  /\ events = <<>>

\* if (!slug) { failures.push({ slug: "(unknown)", reason: "missing slug" }); continue; }
SkipMissingSlug ==
  /\ bpc = "loop" /\ idx < total
  /\ slug = <<>>
  /\ failures' = Append(failures, Failure(S_unknown, "missing slug"))
  /\ events' = events \o <<Ev("begin", idx), Ev("skip", idx)>>
  /\ idx' = idx + 1
  /\ UNCHANGED <<places, bpc, seenSlugs, successCount, folder, disk>>
  /\ UNCHANGED <<mergeVars, enrichVars, syncVars, parseVars, updateVars, docsVars, photoVars>>

\* if (seenSlugs.has(slug)) { continue; }
SkipDuplicateSlug ==
  /\ bpc = "loop" /\ idx < total
  /\ slug # <<>>
  /\ slug \in seenSlugs
  /\ events' = events \o <<Ev("begin", idx), Ev("skip", idx)>>
  /\ idx' = idx + 1
  /\ UNCHANGED <<places, bpc, seenSlugs, failures, successCount, folder, disk>>
  /\ UNCHANGED <<mergeVars, enrichVars, syncVars, parseVars, updateVars, docsVars, photoVars>>

\* SkipMissingGooglePlaceId with the slug not marked as seen.
SkipMissingGooglePlaceIdUnseen ==
  /\ bpc = "loop" /\ idx < total
  /\ slug # <<>>
  /\ slug \notin seenSlugs
  /\ googlePlaceId = <<>>
  /\ failures' = Append(failures, Failure(slug, "missing google_place_id"))
  /\ events' = events \o <<Ev("begin", idx), Ev("skip", idx)>>
  /\ idx' = idx + 1
  /\ UNCHANGED <<places, bpc, seenSlugs, successCount, folder, disk>>
  /\ UNCHANGED <<mergeVars, enrichVars, syncVars, parseVars, updateVars, docsVars, photoVars>>

\* seenSlugs.add(slug);
\* if (!googlePlaceId) { failures.push({ slug, reason: "missing google_place_id" }); continue; }
SkipMissingGooglePlaceId ==
  /\ bpc = "loop" /\ idx < total
  /\ slug # <<>>
  /\ slug \notin seenSlugs
  /\ googlePlaceId = <<>>
  /\ seenSlugs' = seenSlugs \cup {slug}
  /\ failures' = Append(failures, Failure(slug, "missing google_place_id"))
  /\ events' = events \o <<Ev("begin", idx), Ev("skip", idx)>>
  /\ idx' = idx + 1
  /\ UNCHANGED <<places, bpc, successCount, folder, disk>>
  /\ UNCHANGED <<mergeVars, enrichVars, syncVars, parseVars, updateVars, docsVars, photoVars>>

\* seenSlugs.add(slug); let folder = null; folder = await harvestPlace(googlePlaceId)
CallHarvest ==
  /\ bpc = "loop" /\ idx < total
  /\ slug # <<>>
  /\ slug \notin seenSlugs
  /\ googlePlaceId # <<>>
  /\ seenSlugs' = seenSlugs \cup {slug}
  /\ folder' = <<>>
  /\ events' = events \o <<Ev("begin", idx), Ev("harvest", idx)>>
  /\ bpc' = "harvest"
  /\ UNCHANGED <<places, idx, failures, successCount, disk>>
  /\ UNCHANGED <<mergeVars, enrichVars, syncVars, parseVars, updateVars, docsVars, photoVars>>

\* HarvestThrows without the sleep.
HarvestThrowsNoSleep ==
  /\ bpc = "harvest"
  /\ failures' = Append(failures, Failure(slug, "harvest failed"))
  /\ events' = Append(events, Ev("harvestThrew", idx))
  /\ idx' = idx + 1
  /\ bpc' = "loop"
  /\ UNCHANGED <<places, seenSlugs, successCount, folder, disk>>
  /\ UNCHANGED <<mergeVars, enrichVars, syncVars, parseVars, updateVars, docsVars, photoVars>>

\* catch (e) { failures.push({ slug, reason: `invalid google_place_id or harvest failed ...` });
\*             await sleep(BATCH_DELAY_MS); continue; }
HarvestThrows ==
  /\ bpc = "harvest"
  /\ failures' = Append(failures, Failure(slug, "harvest failed"))
  /\ events' = Append(events, Ev("harvestThrew", idx))
  /\ bpc' = "sleep"
  /\ UNCHANGED <<places, idx, seenSlugs, successCount, folder, disk>>
  /\ UNCHANGED <<mergeVars, enrichVars, syncVars, parseVars, updateVars, docsVars, photoVars>>

\* harvestPlace returns its folder, having saved at least one photo file in
\* it or none (files of an earlier harvest stay in the folder).
HarvestReturns ==
  /\ bpc = "harvest"
  /\ folder' = FolderOf(googlePlaceId)
  /\ \E saved \in BOOLEAN :
       disk' = IF saved THEN disk \cup {FolderOf(googlePlaceId)} ELSE disk
  /\ events' = Append(events, Ev("harvested", idx))
  /\ bpc' = "check"
  /\ UNCHANGED <<places, idx, seenSlugs, failures, successCount>>
  /\ UNCHANGED <<mergeVars, enrichVars, syncVars, parseVars, updateVars, docsVars, photoVars>>

\* if (!folder || !hasDownloadedPhotos(folder)) {
\*   failures.push({ slug, reason: "no photos downloaded during harvest" });
\*   await sleep(BATCH_DELAY_MS); continue; }
NoPhotos ==
  /\ bpc = "check"
  /\ folder = <<>> \/ ~hasDownloadedPhotos(disk, folder)
  /\ failures' = Append(failures, Failure(slug, "no photos downloaded during harvest"))
  /\ events' = Append(events, Ev("noPhotos", idx))
  /\ bpc' = "sleep"
  /\ UNCHANGED <<places, idx, seenSlugs, successCount, folder, disk>>
  /\ UNCHANGED <<mergeVars, enrichVars, syncVars, parseVars, updateVars, docsVars, photoVars>>

\* await syncPlace(folder)
CallSync ==
  /\ bpc = "check"
  /\ ~(folder = <<>> \/ ~hasDownloadedPhotos(disk, folder))
  /\ events' = Append(events, Ev("sync", idx))
  /\ bpc' = "sync"
  /\ UNCHANGED <<places, idx, seenSlugs, failures, successCount, folder, disk>>
  /\ UNCHANGED <<mergeVars, enrichVars, syncVars, parseVars, updateVars, docsVars, photoVars>>

\* SyncThrows without the failure record.
SyncThrowsNoRecord ==
  /\ bpc = "sync"
  /\ events' = Append(events, Ev("syncThrew", idx))
  /\ bpc' = "sleep"
  /\ UNCHANGED <<places, idx, seenSlugs, failures, successCount, folder, disk>>
  /\ UNCHANGED <<mergeVars, enrichVars, syncVars, parseVars, updateVars, docsVars, photoVars>>

\* catch (e) { failures.push({ slug, reason: `sync failed ...` });
\*             await sleep(BATCH_DELAY_MS); continue; }
SyncThrows ==
  /\ bpc = "sync"
  /\ failures' = Append(failures, Failure(slug, "sync failed"))
  /\ events' = Append(events, Ev("syncThrew", idx))
  /\ bpc' = "sleep"
  /\ UNCHANGED <<places, idx, seenSlugs, successCount, folder, disk>>
  /\ UNCHANGED <<mergeVars, enrichVars, syncVars, parseVars, updateVars, docsVars, photoVars>>

\* syncPlace returned; await enrichDocuments({ places: [place] }, folder)
CallEnrich ==
  /\ bpc = "sync"
  /\ events' = events \o <<Ev("synced", idx), Ev("enrich", idx)>>
  /\ bpc' = "enrich"
  /\ UNCHANGED <<places, idx, seenSlugs, failures, successCount, folder, disk>>
  /\ UNCHANGED <<mergeVars, enrichVars, syncVars, parseVars, updateVars, docsVars, photoVars>>

\* EnrichThrows counted as a success as well.
EnrichThrowsCounted ==
  /\ bpc = "enrich"
  /\ failures' = Append(failures, Failure(slug, "enrich failed"))
  /\ successCount' = successCount + 1
  /\ events' = Append(events, Ev("enrichThrew", idx))
  /\ bpc' = "sleep"
  /\ UNCHANGED <<places, idx, seenSlugs, folder, disk>>
  /\ UNCHANGED <<mergeVars, enrichVars, syncVars, parseVars, updateVars, docsVars, photoVars>>

\* catch (e) { failures.push({ slug, reason: `enrich failed ...` });
\*             await sleep(BATCH_DELAY_MS); continue; }
EnrichThrows ==
  /\ bpc = "enrich"
  /\ failures' = Append(failures, Failure(slug, "enrich failed"))
  /\ events' = Append(events, Ev("enrichThrew", idx))
  /\ bpc' = "sleep"
  /\ UNCHANGED <<places, idx, seenSlugs, successCount, folder, disk>>
  /\ UNCHANGED <<mergeVars, enrichVars, syncVars, parseVars, updateVars, docsVars, photoVars>>

\* successCount++; logLine(`Completed ${slug}`); await sleep(BATCH_DELAY_MS);
Completed ==
  /\ bpc = "enrich"
  /\ successCount' = successCount + 1
  /\ events' = Append(events, Ev("completed", idx))
  /\ bpc' = "sleep"
  /\ UNCHANGED <<places, idx, seenSlugs, failures, folder, disk>>
  /\ UNCHANGED <<mergeVars, enrichVars, syncVars, parseVars, updateVars, docsVars, photoVars>>

\* await sleep(BATCH_DELAY_MS), then idx++ (by continue or at the end of the
\* loop body).
Sleep ==
  /\ bpc = "sleep"
  /\ events' = Append(events, [e |-> "sleep", idx |-> idx, ms |-> BATCH_DELAY_MS])
  /\ idx' = idx + 1
  /\ bpc' = "loop"
  /\ UNCHANGED <<places, seenSlugs, failures, successCount, folder, disk>>
  /\ UNCHANGED <<mergeVars, enrichVars, syncVars, parseVars, updateVars, docsVars, photoVars>>

\* idx < total fails: the loop ends and the summary is written.
Summary ==
  /\ bpc = "loop" /\ idx = total
  /\ bpc' = "done"
  /\ UNCHANGED <<places, idx, seenSlugs, failures, successCount, folder, disk, events>>
  /\ UNCHANGED <<mergeVars, enrichVars, syncVars, parseVars, updateVars, docsVars, photoVars>>

NextBatch ==
  \/ SkipMissingSlug
  \/ SkipDuplicateSlug
  \/ SkipMissingGooglePlaceId
  \/ CallHarvest
  \/ HarvestThrows
  \/ HarvestReturns
  \/ NoPhotos
  \/ CallSync
  \/ SyncThrows
  \/ CallEnrich
  \/ EnrichThrows
  \/ Completed
  \/ Sleep
  \/ Summary

SpecBatch == InitBatch /\ [][NextBatch]_vars

-----------------------------------------------------------------------------
(* batchAddPlaces: splitTopLevelJSONObjects and parsePlacesBlocks *)

\* The scanner's locals after the characters text[1..n] (i counts from 1
\* here, so start is the 1-based index of the opening brace, 0 for -1).
ScanStart == [parts |-> <<>>, depth |-> 0, inString |-> FALSE, escape |-> FALSE, start |-> 0]

\* ScanChar with string literals not followed: every brace counts.
ScanCharNoStrings(st, text, i) ==
  LET ch == text[i]
  IN IF ch = "{"
     THEN [st EXCEPT !.start = IF st.depth = 0 THEN i ELSE @, !.depth = @ + 1]
     ELSE IF ch = "}"
     THEN IF st.depth - 1 = 0 /\ st.start # 0
          THEN [st EXCEPT !.depth = @ - 1,
                          !.parts = Append(@, SubSeq(text, st.start, i)),
                          !.start = 0]
          ELSE [st EXCEPT !.depth = @ - 1]
     ELSE st

\* One turn of the for loop of splitTopLevelJSONObjects on text[i].
ScanChar(st, text, i) ==
  LET ch == text[i]
  IN IF st.inString
     THEN IF st.escape THEN [st EXCEPT !.escape = FALSE]
          ELSE IF ch = "\\" THEN [st EXCEPT !.escape = TRUE]
          ELSE IF ch = "\"" THEN [st EXCEPT !.inString = FALSE]
          ELSE st
     ELSE IF ch = "\"" THEN [st EXCEPT !.inString = TRUE]
          ELSE IF ch = "{"
          THEN [st EXCEPT !.start = IF st.depth = 0 THEN i ELSE @, !.depth = @ + 1]
          ELSE IF ch = "}"
          THEN IF st.depth - 1 = 0 /\ st.start # 0
               THEN [st EXCEPT !.depth = @ - 1,
                               !.parts = Append(@, SubSeq(text, st.start, i)),
                               !.start = 0]
               ELSE [st EXCEPT !.depth = @ - 1]
          ELSE st

RECURSIVE Scan(_, _, _, _)
\* The loop over text[lo..hi], taken as its first half followed by its
\* second half.  The test on half (start is never negative) has the first
\* half computed before the second is entered.
Scan(st, text, lo, hi) ==
  IF lo > hi THEN st
  ELSE IF lo = hi THEN ScanChar(st, text, lo)
  ELSE LET mid == (lo + hi) \div 2
           half == Scan(st, text, lo, mid)
       IN IF half.start >= 0 THEN Scan(half, text, mid + 1, hi) ELSE half

\* function splitTopLevelJSONObjects(text)
splitTopLevelJSONObjects(text) == Scan(ScanStart, text, 1, Len(text)).parts

\* JSON.parse for texts made of objects, arrays and strings.  A parse step
\* gives [ok, pos, val]: whether a value was read, the index after it, and
\* the value.
JSONWhiteSpace == {" ", "\t", "\n", "\r"}
Bad == [ok |-> FALSE, pos |-> 0, val |-> JSUndefined]
Good(p, v) == [ok |-> TRUE, pos |-> p, val |-> v]

RECURSIVE SkipWs(_, _)
SkipWs(t, i) == IF i <= Len(t) /\ t[i] \in JSONWhiteSpace THEN SkipWs(t, i + 1) ELSE i

RECURSIVE ParseStringRest(_, _, _)
\* The characters of a string literal from index i (after the opening
\* quote) up to its closing quote; \" \\ and \/ are the escapes read, a
\* line break inside the literal is an error.
ParseStringRest(t, i, acc) ==
  IF i > Len(t) THEN Bad
  ELSE IF t[i] = "\"" THEN Good(i + 1, Str(acc))
  ELSE IF t[i] = "\\"
       THEN IF i + 1 <= Len(t) /\ t[i + 1] \in {"\"", "\\", "/"}
            THEN ParseStringRest(t, i + 2, Append(acc, t[i + 1]))
            ELSE Bad
  ELSE IF t[i] = "\n" THEN Bad
  ELSE ParseStringRest(t, i + 1, Append(acc, t[i]))

\* obj[k] = v while parsing: a repeated key keeps its place and takes the
\* last value.
SetProp(props, k, v) ==
  IF \E n \in 1..Len(props) : props[n].k = k
  THEN [n \in 1..Len(props) |-> IF props[n].k = k THEN Prop(k, v) ELSE props[n]]
  ELSE Append(props, Prop(k, v))

RECURSIVE ParseValue(_, _)
RECURSIVE ParseElements(_, _, _)
RECURSIVE ParseMembers(_, _, _)

\* The elements of an array from index i (at an element) on.
ParseElements(t, i, acc) ==
  LET el == ParseValue(t, i)
      j == SkipWs(t, el.pos)
  IN IF ~el.ok \/ j > Len(t) THEN Bad
     ELSE IF t[j] = "," THEN ParseElements(t, SkipWs(t, j + 1), Append(acc, el.val))
     ELSE IF t[j] = "]" THEN Good(j + 1, Arr(Append(acc, el.val)))
     ELSE Bad

\* The members of an object from index i (at a key) on.
ParseMembers(t, i, acc) ==
  LET key == IF i <= Len(t) /\ t[i] = "\"" THEN ParseStringRest(t, i + 1, <<>>) ELSE Bad
      c == SkipWs(t, key.pos)
      member == IF key.ok /\ c <= Len(t) /\ t[c] = ":"
                THEN ParseValue(t, SkipWs(t, c + 1))
                ELSE Bad
      j == SkipWs(t, member.pos)
  IN IF ~member.ok \/ j > Len(t) THEN Bad
     ELSE IF t[j] = "," THEN ParseMembers(t, SkipWs(t, j + 1), SetProp(acc, key.val.s, member.val))
     ELSE IF t[j] = "}" THEN Good(j + 1, Obj(SetProp(acc, key.val.s, member.val)))
     ELSE Bad

\* A value at index i.
ParseValue(t, i) ==
  IF i > Len(t) THEN Bad
  ELSE IF t[i] = "\"" THEN ParseStringRest(t, i + 1, <<>>)
  ELSE IF t[i] = "["
       THEN LET j == SkipWs(t, i + 1)
            IN IF j <= Len(t) /\ t[j] = "]" THEN Good(j + 1, Arr(<<>>))
               ELSE ParseElements(t, j, <<>>)
  ELSE IF t[i] = "{"
       THEN LET j == SkipWs(t, i + 1)
            IN IF j <= Len(t) /\ t[j] = "}" THEN Good(j + 1, Obj(<<>>))
               ELSE ParseMembers(t, j, <<>>)
  ELSE Bad

\* JSON.parse(block): the value, or a SyntaxError.
JSONparse(t) ==
  LET parsed == ParseValue(t, SkipWs(t, 1))
  IN IF parsed.ok /\ SkipWs(t, parsed.pos) = Len(t) + 1 THEN Return(parsed.val) ELSE Throw

K_places == <<"p","l","a","c","e","s">>

RECURSIVE collectPlaces(_, _)
\* for (const block of blocks) { try { const obj = JSON.parse(block);
\*   const places = Array.isArray(obj.places) ? obj.places : [];
\*   if (places.length > 0) results.push(...places); } catch (e) { logLine(...) } }
collectPlaces(bs, acc) ==
  IF bs = <<>> THEN acc
  ELSE LET obj == JSONparse(Head(bs))
           got == IF obj.threw THEN <<>>
                  ELSE IF obj.value.t = "object" /\ IsArray(Get(obj.value, K_places))
                       THEN Get(obj.value, K_places).elems
                  ELSE <<>>
       IN collectPlaces(Tail(bs), acc \o got)

\* function parsePlacesBlocks(filePath), given the text of the file.
parsePlacesBlocks(fileText) ==
  LET rawText == trim(fileText)
  IN IF rawText = <<>> THEN <<>>
     ELSE collectPlaces(splitTopLevelJSONObjects(rawText), <<>>)

\* The number of blocks written in the file.
MaxBlocks == 3

K_slug == <<"s","l","u","g">>
Q == <<"\"">>

\* The text {"slug":"<chars>"} of a place and the text {"places":[<elems>]}
\* of a block.
PlaceText(chars) == <<"{">> \o Q \o K_slug \o Q \o <<":">> \o Q \o chars \o Q \o <<"}">>
BlockText(elems) == <<"{">> \o Q \o K_places \o Q \o <<":", "[">> \o elems \o <<"]", "}">>

\* The place {slug: <chars>} as JSON.parse gives it.
PlaceValue(chars) == Obj(<<Prop(K_slug, Str(chars))>>)

\* A piece of the file: its text, whether it is a well-formed JSON object,
\* and the places it holds.
Piece(text, wf, ps) == [text |-> text, wellFormed |-> wf, places |-> ps]

\* Well-formed blocks: one place, two places, a slug holding a closing
\* brace, a slug holding an escaped quote and an opening brace, and an
\* empty places array written with spaces.
WellFormedPieces ==
  { Piece(BlockText(PlaceText(<<"a">>)), TRUE, <<PlaceValue(<<"a">>)>>),
    Piece(BlockText(PlaceText(<<"b">>) \o <<",", " ">> \o PlaceText(<<"c">>)), TRUE,
          <<PlaceValue(<<"b">>), PlaceValue(<<"c">>)>>),
    Piece(BlockText(PlaceText(<<"x", "}">>)), TRUE, <<PlaceValue(<<"x", "}">>)>>),
    Piece(BlockText(PlaceText(<<"\\", "\"", "{">>)), TRUE, <<PlaceValue(<<"\"", "{">>)>>),
    Piece(<<"{", " ">> \o Q \o K_places \o Q \o <<" ", ":", " ", "[", " ", "]", " ", "}">>, TRUE, <<>>) }

\* Malformed pieces: a stray closing brace, a stray double quote, a block
\* whose closing brace is missing, and a block with balanced braces that is
\* not JSON.
MalformedPieces ==
  { Piece(<<"}">>, FALSE, <<>>),
    Piece(Q, FALSE, <<>>),
    Piece(<<"{">> \o Q \o K_places \o Q \o <<":", "[">> \o PlaceText(<<"e">>) \o <<"]">>, FALSE, <<>>),
    Piece(<<"{">> \o Q \o K_places \o Q \o <<":", "[", "}">>, FALSE, <<>>) }

Separators == { <<" ">>, <<"\n">> }

RECURSIVE JoinTexts(_, _)
\* The texts of the pieces written one after another with the separator
\* between them.
JoinTexts(ps, sep) ==
  IF ps = <<>> THEN <<>>
  ELSE IF Len(ps) = 1 THEN ps[1].text
  ELSE ps[1].text \o sep \o JoinTexts(Tail(ps), sep)

InitParse ==
  /\ MergeIdle /\ EnrichIdle /\ SyncIdle /\ BatchIdle /\ UpdateIdle /\ DocsIdle /\ PhotosIdle
  /\ pieces \in SeqsUpTo(WellFormedPieces \cup MalformedPieces, MaxBlocks)
  /\ \E sep \in Separators : raw = JoinTexts(pieces, sep) \o <<"\n">>
  /\ blocks = <<>>
  /\ results = <<>>
  /\ ppc = "ready"

\* const allPlaces = parsePlacesBlocks(inputFile)
CallParsePlacesBlocks ==
  /\ ppc = "ready"
  /\ blocks' = IF trim(raw) = <<>> THEN <<>> ELSE splitTopLevelJSONObjects(trim(raw))
  /\ results' = parsePlacesBlocks(raw)
  /\ ppc' = "returned"
  /\ UNCHANGED <<pieces, raw>>
  /\ UNCHANGED <<mergeVars, enrichVars, syncVars, batchVars, updateVars, docsVars, photoVars>>

NextParse == CallParsePlacesBlocks

SpecParse == InitParse /\ [][NextParse]_vars

-----------------------------------------------------------------------------
(* batchUpdateEnrichment: the main loop *)

\* The number of items read from the file.
MaxItems == 2

\* The script imports fetchJSON and updateByDocumentId by name; the only
\* functions of these names are those of enrichDocuments.js (l.40-56), and
\* the query built at l.110 fits the STRAPI_API_URL of that file (l.17).

\* A place of the CMS, with the fields the lookup filters on and returns.
CmsPlace(d, g, s) == [documentId |-> d, place_id |-> g, slug |-> s]

UpdateCms == {CmsPlace("doc1", "G1", "addo"), CmsPlace("doc2", "G2", "kruger")}

\* An item of the file.  "" stands for a field that is missing, null or
\* empty: all three are falsy in item.google_place_id || item.place_id || null
\* and in item.slug || null.  enriched tells whether the payload built at
\* l.138-179 has a key.
UpdateItem(g, p, s, e) ==
  [google_place_id |-> g, place_id |-> p, slug |-> s, enriched |-> e]

ItemChoices ==
  {UpdateItem("G1", "", "", TRUE),
   UpdateItem("", "G2", "", TRUE),
   UpdateItem("", "", "addo", TRUE),
   UpdateItem("G9", "", "kruger", TRUE),
   UpdateItem("", "", "", TRUE),
   UpdateItem("", "", "nowhere", TRUE),
   UpdateItem("G1", "", "addo", FALSE)}

\* const googleId = item.google_place_id || item.place_id || null;
googleId(it) == IF it.google_place_id # "" THEN it.google_place_id ELSE it.place_id

\* const filterKey = googleId ? "place_id" : "slug";
filterKey(it) == IF googleId(it) # "" THEN "place_id" ELSE "slug"

\* const filterVal = encodeURIComponent(googleId || slug);
filterVal(it) == IF googleId(it) # "" THEN googleId(it) ELSE it.slug

\* The data of the CMS's answer to ?filters[key][$eq]=val.
Matching(key, val) == {p \in UpdateCms : p[key] = val}

\* A request sent to the CMS by the item at position i, and its answer
\* ("pending" until the CMS answers).
Request(i, method, key, val) ==
  [i |-> i, method |-> method, key |-> key, val |-> val, answer |-> "pending"]

Answered(reqs, answer) == [reqs EXCEPT ![Len(reqs)].answer = answer]

InitUpdate ==
  /\ MergeIdle /\ EnrichIdle /\ SyncIdle /\ BatchIdle /\ ParseIdle /\ DocsIdle /\ PhotosIdle
  /\ placeItems \in SeqsUpTo(ItemChoices, MaxItems) \ {<<>>}
  /\ ui = 1
  /\ upc = "loop"
  /\ attempt = 0
  /\ aborted = FALSE
  /\ placeDocId = ""
  /\ requests = <<>>
  /\ updated = <<>>
  /\ failed = <<>>

\* if (!googleId && !slug) { failed.push({ slug: "unknown", ... }); continue; }
MissingIdentifier ==
  /\ upc = "loop"
  /\ ui <= Len(placeItems)
  /\ googleId(placeItems[ui]) = "" /\ placeItems[ui].slug = ""
  /\ failed' = Append(failed, [slug |-> "unknown", reason |-> "missing identifier"])
  /\ ui' = ui + 1
  /\ UNCHANGED <<placeItems, upc, attempt, aborted, placeDocId, requests, updated>>
  /\ UNCHANGED <<mergeVars, enrichVars, syncVars, batchVars, parseVars, docsVars, photoVars>>

\* The first fetchJSON(query) of the retry loop.
SendLookup ==
  /\ upc = "loop"
  /\ ui <= Len(placeItems)
  /\ ~(googleId(placeItems[ui]) = "" /\ placeItems[ui].slug = "")
  /\ requests' = Append(requests,
       Request(ui, "GET", filterKey(placeItems[ui]), filterVal(placeItems[ui])))
  /\ attempt' = 1
  /\ upc' = "lookup"
  /\ UNCHANGED <<placeItems, ui, aborted, placeDocId, updated, failed>>
  /\ UNCHANGED <<mergeVars, enrichVars, syncVars, batchVars, parseVars, docsVars, photoVars>>

\* The code after the retry loop (l.126-193), with the data of the last
\* answer: place not found, no enrichment data, or the first safeUpdate.
AfterLookup(data, reqs) ==
  IF data = {}
    THEN /\ failed' = Append(failed, [slug |-> placeItems[ui].slug, reason |-> "place not found"])
         /\ ui' = ui + 1
         /\ upc' = "loop"
         /\ requests' = reqs
         /\ UNCHANGED <<attempt, aborted, placeDocId>>
    ELSE IF ~placeItems[ui].enriched
      THEN /\ ui' = ui + 1
           /\ upc' = "loop"
           /\ requests' = reqs
           /\ UNCHANGED <<attempt, aborted, placeDocId, failed>>
      ELSE LET docId == (CHOOSE p \in data : TRUE).documentId
           IN /\ placeDocId' = docId
              /\ requests' = Append(reqs, Request(ui, "PUT", "documentId", docId))
              /\ attempt' = 1
              /\ aborted' = FALSE
              /\ upc' = "update"
              /\ UNCHANGED <<ui, failed>>

\* fetchJSON resolves: break when data is not empty, else the next attempt
\* after delay(2000), and after the third attempt the code after the loop.
FetchAnswers ==
  /\ upc = "lookup"
  /\ LET req == requests[Len(requests)]
         data == Matching(req.key, req.val)
     IN IF data # {}
          THEN AfterLookup(data, Answered(requests, "data"))
          ELSE IF attempt < 3
            THEN /\ upc' = "lookupDelay"
                 /\ requests' = Answered(requests, "empty")
                 /\ UNCHANGED <<ui, attempt, aborted, placeDocId, failed>>
            ELSE AfterLookup({}, Answered(requests, "empty"))
  /\ UNCHANGED <<placeItems, updated>>
  /\ UNCHANGED <<mergeVars, enrichVars, syncVars, batchVars, parseVars, docsVars, photoVars>>

\* fetchJSON throws (network error or !res.ok): caught, placeRes keeps the
\* empty answer or null of the earlier attempts.
FetchThrows ==
  /\ upc = "lookup"
  /\ IF attempt < 3
       THEN /\ upc' = "lookupDelay"
            /\ requests' = Answered(requests, "error")
            /\ UNCHANGED <<ui, attempt, aborted, placeDocId, failed>>
       ELSE AfterLookup({}, Answered(requests, "error"))
  /\ UNCHANGED <<placeItems, updated>>
  /\ UNCHANGED <<mergeVars, enrichVars, syncVars, batchVars, parseVars, docsVars, photoVars>>

\* if (attempt < 3) await delay(2000); then the next fetchJSON(query).
FetchDelayElapses ==
  /\ upc = "lookupDelay"
  /\ attempt' = attempt + 1
  /\ requests' = Append(requests,
       Request(ui, "GET", filterKey(placeItems[ui]), filterVal(placeItems[ui])))
  /\ upc' = "lookup"
  /\ UNCHANGED <<placeItems, ui, aborted, placeDocId, updated, failed>>
  /\ UNCHANGED <<mergeVars, enrichVars, syncVars, batchVars, parseVars, docsVars, photoVars>>

\* setTimeout(() => controller.abort(), 25000) fires while the update is
\* awaited.  updateByDocumentId(endpoint, documentId, payload) has no fourth
\* parameter and its fetch is given no signal: the request stays pending.
AbortTimerFires ==
  /\ upc = "update"
  /\ ~aborted
  /\ aborted' = TRUE
  /\ UNCHANGED <<placeItems, ui, upc, attempt, placeDocId, requests, updated, failed>>
  /\ UNCHANGED <<mergeVars, enrichVars, syncVars, batchVars, parseVars, docsVars, photoVars>>

\* updateByDocumentId resolves: safeUpdate returns true, updated.push(slug).
UpdateAccepted ==
  /\ upc = "update"
  /\ requests' = Answered(requests, "ok")
  /\ updated' = Append(updated, placeItems[ui].slug)
  /\ upc' = "pace"
  /\ UNCHANGED <<placeItems, ui, attempt, aborted, placeDocId, failed>>
  /\ UNCHANGED <<mergeVars, enrichVars, syncVars, batchVars, parseVars, docsVars, photoVars>>

\* updateByDocumentId throws: safeUpdate returns false, await delay(4000).
UpdateRejected ==
  /\ upc = "update"
  /\ requests' = Answered(requests, "rejected")
  /\ upc' = "updateDelay"
  /\ UNCHANGED <<placeItems, ui, attempt, aborted, placeDocId, updated, failed>>
  /\ UNCHANGED <<mergeVars, enrichVars, syncVars, batchVars, parseVars, docsVars, photoVars>>

\* After delay(4000): the next safeUpdate, or after the third attempt
\* failed.push({ slug, reason: "update failed" }).
UpdateDelayElapses ==
  /\ upc = "updateDelay"
  /\ IF attempt < 3
       THEN /\ attempt' = attempt + 1
            /\ requests' = Append(requests, Request(ui, "PUT", "documentId", placeDocId))
            /\ aborted' = FALSE
            /\ upc' = "update"
            /\ UNCHANGED failed
       ELSE /\ failed' = Append(failed, [slug |-> placeItems[ui].slug, reason |-> "update failed"])
            /\ upc' = "pace"
            /\ UNCHANGED <<attempt, aborted, requests>>
  /\ UNCHANGED <<placeItems, ui, placeDocId, updated>>
  /\ UNCHANGED <<mergeVars, enrichVars, syncVars, batchVars, parseVars, docsVars, photoVars>>

\* await delay(3000); i++
PaceElapses ==
  /\ upc = "pace"
  /\ ui' = ui + 1
  /\ upc' = "loop"
  /\ UNCHANGED <<placeItems, attempt, aborted, placeDocId, requests, updated, failed>>
  /\ UNCHANGED <<mergeVars, enrichVars, syncVars, batchVars, parseVars, docsVars, photoVars>>

\* The summary printed after the loop.
PrintSummary ==
  /\ upc = "loop"
  /\ ui > Len(placeItems)
  /\ upc' = "summary"
  /\ UNCHANGED <<placeItems, ui, attempt, aborted, placeDocId, requests, updated, failed>>
  /\ UNCHANGED <<mergeVars, enrichVars, syncVars, batchVars, parseVars, docsVars, photoVars>>

\* The steps the script takes by itself: its own code and its timers.
ScriptStep ==
  \/ MissingIdentifier
  \/ SendLookup
  \/ FetchDelayElapses
  \/ AbortTimerFires
  \/ UpdateDelayElapses
  \/ PaceElapses
  \/ PrintSummary

\* The answers of the CMS, which may never come.
CmsStep ==
  \/ FetchAnswers
  \/ FetchThrows
  \/ UpdateAccepted
  \/ UpdateRejected

NextUpdate == ScriptStep \/ CmsStep

SpecUpdate == InitUpdate /\ [][NextUpdate]_vars

\* The event loop runs the script's code and fires its timers; nothing
\* obliges the CMS to answer.
SpecUpdateFair == SpecUpdate /\ WF_vars(ScriptStep)

-----------------------------------------------------------------------------
(* enrichDocuments: the loop over the place items and the update *)

\* The number of place items of the enrichment input.
MaxDocs == 2

\* An amenity as the CMS returns it.  id 0 stands for an id that is not an
\* integer and documentId "" for a missing documentId: the code drops them
\* with Number.isInteger and with filter(Boolean) / if (m.documentId).
Amenity(n, d) == [id |-> n, documentId |-> d]

\* amenityMap: the amenities of the CMS by slug (l.150-156).
AmenitySlugs == {"pool", "braai", "wifi"}

amenityMap ==
  [s \in AmenitySlugs |->
     CASE s = "pool" -> Amenity(1, "am1")
       [] s = "braai" -> Amenity(2, "am2")
       [] s = "wifi" -> Amenity(0, "am3")]

\* The amenities a place of the CMS may be linked to when it is looked up.
CurrentChoices ==
  {<<>>,
   <<Amenity(1, "am1")>>,
   <<Amenity(2, "am2"), Amenity(1, "am1")>>,
   <<Amenity(2, "")>>}

\* A place item of the enrichment input: its slug ("" when missing), the
\* amenity slugs it asks for (<<>> when item.amenities is not an array) and
\* the keys that l.239-309 put in the payload for it.
DocItem(s, a, ks) == [slug |-> s, amenities |-> a, rest |-> ks]

DocChoices ==
  {DocItem("", <<"pool">>, {"description"}),
   DocItem("nowhere", <<"pool">>, {"description"}),
   DocItem("addo", <<>>, {}),
   DocItem("addo", <<"pool">>, {}),
   DocItem("addo", <<>>, {"description"}),
   DocItem("kruger", <<"pool", "braai">>, {"description"}),
   DocItem("addo", <<"braai", "braai">>, {}),
   DocItem("addo", <<"wifi">>, {"rates"}),
   DocItem("kruger", <<"sauna", "pool">>, {})}

\* Array.prototype.includes
Includes(seq, v) == \E k \in 1..Len(seq) : seq[k] = v

\* Array.prototype.filter with (x) => !other.includes(x)
RECURSIVE NotIncludedIn(_, _)
NotIncludedIn(seq, other) ==
  IF seq = <<>> THEN <<>>
  ELSE (IF Includes(other, Head(seq)) THEN <<>> ELSE <<Head(seq)>>)
         \o NotIncludedIn(Tail(seq), other)

\* currentAmenDocIds and currentAmenIds (l.206-211).
RECURSIVE currentAmenDocIds(_)
currentAmenDocIds(currentAmenities) ==
  IF currentAmenities = <<>> THEN <<>>
  ELSE (IF Head(currentAmenities).documentId # "" THEN <<Head(currentAmenities).documentId>> ELSE <<>>)
         \o currentAmenDocIds(Tail(currentAmenities))

RECURSIVE currentAmenIds(_)
currentAmenIds(currentAmenities) ==
  IF currentAmenities = <<>> THEN <<>>
  ELSE (IF Head(currentAmenities).id # 0 THEN <<Head(currentAmenities).id>> ELSE <<>>)
         \o currentAmenIds(Tail(currentAmenities))

\* targetDocIds and targetIds (l.221-228): slugs missing from amenityMap
\* are skipped.
RECURSIVE targetDocIds(_)
targetDocIds(requestedSlugs) ==
  IF requestedSlugs = <<>> THEN <<>>
  ELSE (IF Head(requestedSlugs) \in AmenitySlugs /\ amenityMap[Head(requestedSlugs)].documentId # ""
          THEN <<amenityMap[Head(requestedSlugs)].documentId>> ELSE <<>>)
         \o targetDocIds(Tail(requestedSlugs))

RECURSIVE targetIds(_)
targetIds(requestedSlugs) ==
  IF requestedSlugs = <<>> THEN <<>>
  ELSE (IF Head(requestedSlugs) \in AmenitySlugs /\ amenityMap[Head(requestedSlugs)].id # 0
          THEN <<amenityMap[Head(requestedSlugs)].id>> ELSE <<>>)
         \o targetIds(Tail(requestedSlugs))

toConnectDocIds(it, currentAmenities) ==
  NotIncludedIn(targetDocIds(it.amenities), currentAmenDocIds(currentAmenities))

toConnectIds(it, currentAmenities) ==
  NotIncludedIn(targetIds(it.amenities), currentAmenIds(currentAmenities))

\* Array.from(new Set(seq)): the first occurrence of each element, in order.
RECURSIVE ArrayFromSet(_)
ArrayFromSet(seq) ==
  IF seq = <<>> THEN <<>>
  ELSE LET init == ArrayFromSet(SubSeq(seq, 1, Len(seq) - 1))
       IN IF Includes(init, seq[Len(seq)]) THEN init ELSE Append(init, seq[Len(seq)])

\* Mutant: the union keeps the duplicates.
unionIdsSpread(it, currentAmenities) ==
  currentAmenIds(currentAmenities) \o toConnectIds(it, currentAmenities)

\* const unionIds = Array.from(new Set([...currentAmenIds, ...toConnectIds]));
unionIds(it, currentAmenities) ==
  ArrayFromSet(currentAmenIds(currentAmenities) \o toConnectIds(it, currentAmenities))

\* The amenities of a payload: no key, { connect: [documentIds] } or an
\* array of numeric ids.
NoAmenities == [t |-> "absent", connect |-> <<>>, ids |-> <<>>]
Connect(docIds) == [t |-> "connect", connect |-> docIds, ids |-> <<>>]
IdArray(ns) == [t |-> "array", connect |-> <<>>, ids |-> ns]

\* The payload built at l.239-313.
DocPayload(it, currentAmenities) ==
  [keys |-> it.rest,
   amenities |-> IF Len(toConnectDocIds(it, currentAmenities)) > 0
                   THEN Connect(toConnectDocIds(it, currentAmenities))
                   ELSE NoAmenities]

\* const fallback = { ...payload }; if (toConnectDocIds.length > 0) fallback.amenities = unionIds;
Fallback(it, currentAmenities) ==
  [keys |-> it.rest,
   amenities |-> IF Len(toConnectDocIds(it, currentAmenities)) > 0
                   THEN IdArray(unionIds(it, currentAmenities))
                   ELSE NoAmenities]

\* Mutant: an empty payload is sent like any other.
payloadNeverEmpty(p) == FALSE

\* Object.keys(payload).length === 0
payloadIsEmpty(p) == p.keys = {} /\ p.amenities.t = "absent"

\* A PUT sent for the item at position i, the amenities the place was linked
\* to when it was looked up, and the CMS's answer.
Put(i, kind, docId, p, currentAmenities) ==
  [i |-> i, kind |-> kind, documentId |-> docId, payload |-> p,
   linked |-> currentAmenities, answer |-> "pending"]

\* The place items after the slug of place.json was injected (l.128-141):
\* enrichment.places[0].slug = slug when it is missing.
Injected(items, s) ==
  IF s # "" /\ items # <<>> /\ items[1].slug = ""
    THEN [items EXCEPT ![1].slug = s]
    ELSE items

InitDocs ==
  /\ MergeIdle /\ EnrichIdle /\ SyncIdle /\ BatchIdle /\ ParseIdle /\ UpdateIdle /\ PhotosIdle
  /\ enrichment \in SeqsUpTo(DocChoices, MaxDocs)
  /\ placeSlug \in {"", "addo"}
  /\ di = 0
  /\ dpc = "called"
  /\ puts = <<>>
  /\ updatedSlugs = <<>>

\* enrichment.places is an empty array and place.json has a slug:
\* enrichment.places[0].slug is a TypeError.
InjectThrows ==
  /\ dpc = "called"
  /\ placeSlug # "" /\ enrichment = <<>>
  /\ dpc' = "threw"
  /\ UNCHANGED <<enrichment, placeSlug, di, puts, updatedSlugs>>
  /\ UNCHANGED <<mergeVars, enrichVars, syncVars, batchVars, parseVars, updateVars, photoVars>>

\* The call up to the loop: the slug is injected and the amenities are read.
BuildAmenityMap ==
  /\ dpc = "called"
  /\ ~(placeSlug # "" /\ enrichment = <<>>)
  /\ enrichment' = Injected(enrichment, placeSlug)
  /\ di' = 1
  /\ dpc' = "loop"
  /\ UNCHANGED <<placeSlug, puts, updatedSlugs>>
  /\ UNCHANGED <<mergeVars, enrichVars, syncVars, batchVars, parseVars, updateVars, photoVars>>

\* fetchJSON of the amenities throws: enrichDocuments throws.
AmenitiesThrow ==
  /\ dpc = "called"
  /\ ~(placeSlug # "" /\ enrichment = <<>>)
  /\ enrichment' = Injected(enrichment, placeSlug)
  /\ dpc' = "threw"
  /\ UNCHANGED <<placeSlug, di, puts, updatedSlugs>>
  /\ UNCHANGED <<mergeVars, enrichVars, syncVars, batchVars, parseVars, updateVars, photoVars>>

\* if (!slug) { ...; continue; }
SkipNoSlug ==
  /\ dpc = "loop"
  /\ di <= Len(enrichment)
  /\ enrichment[di].slug = ""
  /\ di' = di + 1
  /\ UNCHANGED <<enrichment, placeSlug, dpc, puts, updatedSlugs>>
  /\ UNCHANGED <<mergeVars, enrichVars, syncVars, batchVars, parseVars, updateVars, photoVars>>

\* fetchJSON(q) throws: enrichDocuments throws.
PlaceFetchThrows ==
  /\ dpc = "loop"
  /\ di <= Len(enrichment)
  /\ enrichment[di].slug # ""
  /\ dpc' = "threw"
  /\ UNCHANGED <<enrichment, placeSlug, di, puts, updatedSlugs>>
  /\ UNCHANGED <<mergeVars, enrichVars, syncVars, batchVars, parseVars, updateVars, photoVars>>

\* const place = placeRes.data?.[0]; if (!place) { ...; continue; }
PlaceNotFound ==
  /\ dpc = "loop"
  /\ di <= Len(enrichment)
  /\ enrichment[di].slug # ""
  /\ Matching("slug", enrichment[di].slug) = {}
  /\ di' = di + 1
  /\ UNCHANGED <<enrichment, placeSlug, dpc, puts, updatedSlugs>>
  /\ UNCHANGED <<mergeVars, enrichVars, syncVars, batchVars, parseVars, updateVars, photoVars>>

\* The place is found with some linked amenities and the payload built for
\* it has no key: continue.
NothingToUpdate ==
  /\ dpc = "loop"
  /\ di <= Len(enrichment)
  /\ enrichment[di].slug # ""
  /\ Matching("slug", enrichment[di].slug) # {}
  /\ \E currentAmenities \in CurrentChoices :
       payloadIsEmpty(DocPayload(enrichment[di], currentAmenities))
  /\ di' = di + 1
  /\ UNCHANGED <<enrichment, placeSlug, dpc, puts, updatedSlugs>>
  /\ UNCHANGED <<mergeVars, enrichVars, syncVars, batchVars, parseVars, updateVars, photoVars>>

\* The place is found and the payload has a key:
\* updateByDocumentId("places", placeDocId, payload).
SendPut ==
  /\ dpc = "loop"
  /\ di <= Len(enrichment)
  /\ enrichment[di].slug # ""
  /\ \E found \in Matching("slug", enrichment[di].slug) :
     \E currentAmenities \in CurrentChoices :
       /\ ~payloadIsEmpty(DocPayload(enrichment[di], currentAmenities))
       /\ puts' = Append(puts, Put(di, "direct", found.documentId,
                                   DocPayload(enrichment[di], currentAmenities),
                                   currentAmenities))
  /\ dpc' = "put"
  /\ UNCHANGED <<enrichment, placeSlug, di, updatedSlugs>>
  /\ UNCHANGED <<mergeVars, enrichVars, syncVars, batchVars, parseVars, updateVars, photoVars>>

\* updateByDocumentId resolves: updated.push(slug).
PutAccepted ==
  /\ dpc = "put"
  /\ puts' = Answered(puts, "ok")
  /\ updatedSlugs' = Append(updatedSlugs, enrichment[di].slug)
  /\ di' = di + 1
  /\ dpc' = "loop"
  /\ UNCHANGED <<enrichment, placeSlug>>
  /\ UNCHANGED <<mergeVars, enrichVars, syncVars, batchVars, parseVars, updateVars, photoVars>>

\* updateByDocumentId throws: the catch block sends the fallback PUT.
PutRejected ==
  /\ dpc = "put"
  /\ LET sent == puts[Len(puts)]
     IN puts' = Append(Answered(puts, "rejected"),
                       Put(di, "fallback", sent.documentId,
                           Fallback(enrichment[di], sent.linked), sent.linked))
  /\ dpc' = "fallback"
  /\ UNCHANGED <<enrichment, placeSlug, di, updatedSlugs>>
  /\ UNCHANGED <<mergeVars, enrichVars, syncVars, batchVars, parseVars, updateVars, photoVars>>

\* The fallback's response is ok: updated.push(slug).
FallbackAccepted ==
  /\ dpc = "fallback"
  /\ puts' = Answered(puts, "ok")
  /\ updatedSlugs' = Append(updatedSlugs, enrichment[di].slug)
  /\ di' = di + 1
  /\ dpc' = "loop"
  /\ UNCHANGED <<enrichment, placeSlug>>
  /\ UNCHANGED <<mergeVars, enrichVars, syncVars, batchVars, parseVars, updateVars, photoVars>>

\* The fallback's fetch throws or if (!r.ok) throw: enrichDocuments throws.
FallbackRejected ==
  /\ dpc = "fallback"
  /\ puts' = Answered(puts, "rejected")
  /\ dpc' = "threw"
  /\ UNCHANGED <<enrichment, placeSlug, di, updatedSlugs>>
  /\ UNCHANGED <<mergeVars, enrichVars, syncVars, batchVars, parseVars, updateVars, photoVars>>

\* return updated;
ReturnUpdated ==
  /\ dpc = "loop"
  /\ di > Len(enrichment)
  /\ dpc' = "returned"
  /\ UNCHANGED <<enrichment, placeSlug, di, puts, updatedSlugs>>
  /\ UNCHANGED <<mergeVars, enrichVars, syncVars, batchVars, parseVars, updateVars, photoVars>>

NextDocs ==
  \/ InjectThrows
  \/ BuildAmenityMap
  \/ AmenitiesThrow
  \/ SkipNoSlug
  \/ PlaceFetchThrows
  \/ PlaceNotFound
  \/ NothingToUpdate
  \/ SendPut
  \/ PutAccepted
  \/ PutRejected
  \/ FallbackAccepted
  \/ FallbackRejected
  \/ ReturnUpdated

SpecDocs == InitDocs /\ [][NextDocs]_vars

-----------------------------------------------------------------------------
(* syncPlace: the upload of the photos and the cover photo *)

\* The number of photos listed in place.json.
MaxPhotos == 2

\* A photo of place.json: its file name and its attribution text ("" when
\* there is none).
HarvestedPhoto(f, a) == [file |-> f, attribution_text |-> a]

PhotoChoices ==
  {HarvestedPhoto("photo_1.jpg", "by A"), HarvestedPhoto("photo_2.jpg", "")}

PhotoFileNames == {p.file : p \in PhotoChoices}

\* The ids the CMS may give to an uploaded file.
UploadIds == 1..(MaxPhotos + 1)

\* const photoObj = { image: id, attribution: p.attribution_text || null };
photoObj(id, p) == [image |-> id, attribution |-> p.attribution_text]

\* Mutant: the cover photo is the last photo uploaded.
coverAfterUploadAny(index, id, cover) == id

\* if (index === 0) coverPhotoId = id;  (position 1 is the source's index 0)
coverAfterUpload(index, id, cover) == IF index = 1 THEN id ELSE cover

\* The part of the payload the photos decide: photos, and cover_photo (0
\* when the key is not set): if (coverPhotoId) payload.data.cover_photo = coverPhotoId.
PhotoPayload(ps, cover) == [photos |-> ps, cover_photo |-> cover]

\* syncPlace(folderPath) has read place.json: harvested.photos and the files
\* of the folder.
InitPhotos ==
  /\ MergeIdle /\ EnrichIdle /\ SyncIdle /\ BatchIdle /\ ParseIdle /\ UpdateIdle /\ DocsIdle
  /\ harvestedPhotos \in SeqsUpTo(PhotoChoices, MaxPhotos)
  /\ photoFiles \in SUBSET PhotoFileNames
  /\ photoIndex = 1
  /\ phpc = "photos"
  /\ photos = <<>>
  /\ coverPhotoId = 0
  /\ uploads = <<>>
  /\ saves = <<>>

\* if (!fs.existsSync(filePath)) { ...; continue; }
PhotoMissing ==
  /\ phpc = "photos"
  /\ photoIndex <= Len(harvestedPhotos)
  /\ harvestedPhotos[photoIndex].file \notin photoFiles
  /\ uploads' = Append(uploads, [index |-> photoIndex, outcome |-> "missing", id |-> 0])
  /\ photoIndex' = photoIndex + 1
  /\ UNCHANGED <<harvestedPhotos, photoFiles, phpc, photos, coverPhotoId, saves>>
  /\ UNCHANGED <<mergeVars, enrichVars, syncVars, batchVars, parseVars, updateVars, docsVars>>

\* uploadToStrapi returns the id of the uploaded file.
PhotoUploaded ==
  /\ phpc = "photos"
  /\ photoIndex <= Len(harvestedPhotos)
  /\ harvestedPhotos[photoIndex].file \in photoFiles
  /\ \E id \in UploadIds \ {uploads[k].id : k \in 1..Len(uploads)} :
       /\ coverPhotoId' = coverAfterUpload(photoIndex, id, coverPhotoId)
       /\ photos' = Append(photos, photoObj(id, harvestedPhotos[photoIndex]))
       /\ uploads' = Append(uploads, [index |-> photoIndex, outcome |-> "uploaded", id |-> id])
  /\ photoIndex' = photoIndex + 1
  /\ UNCHANGED <<harvestedPhotos, photoFiles, phpc, saves>>
  /\ UNCHANGED <<mergeVars, enrichVars, syncVars, batchVars, parseVars, updateVars, docsVars>>

\* uploadToStrapi throws (request aborted or refused, answer not JSON):
\* caught and logged.
PhotoUploadFails ==
  /\ phpc = "photos"
  /\ photoIndex <= Len(harvestedPhotos)
  /\ harvestedPhotos[photoIndex].file \in photoFiles
  /\ uploads' = Append(uploads, [index |-> photoIndex, outcome |-> "failed", id |-> 0])
  /\ photoIndex' = photoIndex + 1
  /\ UNCHANGED <<harvestedPhotos, photoFiles, phpc, photos, coverPhotoId, saves>>
  /\ UNCHANGED <<mergeVars, enrichVars, syncVars, batchVars, parseVars, updateVars, docsVars>>

\* After the loop the payload is built and the lookup by slug is sent.
CheckExisting ==
  /\ phpc = "photos"
  /\ photoIndex > Len(harvestedPhotos)
  /\ phpc' = "lookup"
  /\ UNCHANGED <<harvestedPhotos, photoFiles, photoIndex, photos, coverPhotoId, uploads, saves>>
  /\ UNCHANGED <<mergeVars, enrichVars, syncVars, batchVars, parseVars, updateVars, docsVars>>

\* The lookup is answered: PUT when a place exists, POST otherwise, with the
\* payload.
SavePlace ==
  /\ phpc = "lookup"
  /\ \E method \in {"PUT", "POST"} :
       saves' = Append(saves, [method |-> method,
                               payload |-> PhotoPayload(photos, coverPhotoId)])
  /\ phpc' = "respond"
  /\ UNCHANGED <<harvestedPhotos, photoFiles, photoIndex, photos, coverPhotoId, uploads>>
  /\ UNCHANGED <<mergeVars, enrichVars, syncVars, batchVars, parseVars, updateVars, docsVars>>

\* The lookup is aborted or its body is not JSON: syncPlace throws.
CheckThrows ==
  /\ phpc = "lookup"
  /\ phpc' = "threw"
  /\ UNCHANGED <<harvestedPhotos, photoFiles, photoIndex, photos, coverPhotoId, uploads, saves>>
  /\ UNCHANGED <<mergeVars, enrichVars, syncVars, batchVars, parseVars, updateVars, docsVars>>

\* strapiRes.ok: return strapiData.
SaveAccepted ==
  /\ phpc = "respond"
  /\ phpc' = "returned"
  /\ UNCHANGED <<harvestedPhotos, photoFiles, photoIndex, photos, coverPhotoId, uploads, saves>>
  /\ UNCHANGED <<mergeVars, enrichVars, syncVars, batchVars, parseVars, updateVars, docsVars>>

\* The save is refused or its answer is not JSON: syncPlace throws.
SaveRejected ==
  /\ phpc = "respond"
  /\ phpc' = "threw"
  /\ UNCHANGED <<harvestedPhotos, photoFiles, photoIndex, photos, coverPhotoId, uploads, saves>>
  /\ UNCHANGED <<mergeVars, enrichVars, syncVars, batchVars, parseVars, updateVars, docsVars>>

NextPhotos ==
  \/ PhotoMissing
  \/ PhotoUploaded
  \/ PhotoUploadFails
  \/ CheckExisting
  \/ SavePlace
  \/ CheckThrows
  \/ SaveAccepted
  \/ SaveRejected

SpecPhotos == InitPhotos /\ [][NextPhotos]_vars

-----------------------------------------------------------------------------
(* Vocabulary of the properties *)

\* A rates call / a tags call has just returned an array.
RatesReturned == fn = "mergeRates" /\ pc = "returned" /\ ~result.threw
TagsReturned == fn = "mergeTags" /\ pc = "returned" /\ ~result.threw

\* An entry with amount and unit normalized.
NormalizedRate(r) == Rate(normNum(r.amount), normStr(r.unit))

\* The identity of a rate: its normalized amount and its trimmed unit in
\* lower case.
RateIdentity(r) == <<normNum(r.amount), toLowerCase(normStr(r.unit).s)>>

\* A rate whose normalized amount is null and whose trimmed unit is empty.
IsEmptyRate(r) == normNum(r.amount) = JSNull /\ normStr(r.unit).s = <<>>

\* The incoming rates that are neither null/undefined nor empty.
InsertedRates(inc) == SelectSeq(inc, LAMBDA r : ~IsNullish(r) /\ ~IsEmptyRate(r))

\* An entry with its label trimmed, and a tag's identity.
NormalizedTag(e) == Tag(normStr(e.label))
TagIdentity(e) == toLowerCase(normStr(e.label).s)
IsEmptyTag(e) == normStr(e.label).s = <<>>

\* The tags that are neither null/undefined nor empty after trimming.
InsertedTags(arr) == SelectSeq(arr, LAMBDA e : ~IsNullish(e) /\ ~IsEmptyTag(e))

RECURSIVE RateKeys(_)
\* The identities of a sequence of rate objects, entry by entry.
RateKeys(seq) ==
  IF seq = <<>> THEN <<>> ELSE <<RateIdentity(Head(seq))>> \o RateKeys(Tail(seq))

RECURSIVE NormalizedRates(_)
\* A sequence of rate objects with each entry normalized.
NormalizedRates(seq) ==
  IF seq = <<>> THEN <<>> ELSE <<NormalizedRate(Head(seq))>> \o NormalizedRates(Tail(seq))

RECURSIVE TagKeys(_)
\* The identities of a sequence of tag objects, entry by entry.
TagKeys(seq) ==
  IF seq = <<>> THEN <<>> ELSE <<TagIdentity(Head(seq))>> \o TagKeys(Tail(seq))

RECURSIVE NormalizedTags(_)
\* A sequence of tag objects with each label trimmed.
NormalizedTags(seq) ==
  IF seq = <<>> THEN <<>> ELSE <<NormalizedTag(Head(seq))>> \o NormalizedTags(Tail(seq))

\* The elements of a sequence.
Range(seq) == {seq[i] : i \in 1..Len(seq)}

\* First and last position of k in a sequence of keys.
FirstIndex(ks, k) == CHOOSE i \in 1..Len(ks) : ks[i] = k /\ \A j \in 1..(i - 1) : ks[j] # k
LastIndex(ks, k) == CHOOSE i \in 1..Len(ks) : ks[i] = k /\ \A j \in (i + 1)..Len(ks) : ks[j] # k

\* No key twice.
Distinct(ks) == \A p, q \in 1..Len(ks) : p # q => ks[p] # ks[q]

\* The keys outKs are in the order of their first occurrence in inKs.
FirstOccurrenceOrder(outKs, inKs) ==
  \A p, q \in 1..Len(outKs) :
    (p < q /\ outKs[p] \in Range(inKs) /\ outKs[q] \in Range(inKs))
      => FirstIndex(inKs, outKs[p]) < FirstIndex(inKs, outKs[q])

\* Each entry of out is the last of the entries ins that has its key.
LastOccurrenceStored(out, outKs, ins, inKs) ==
  \A p \in 1..Len(out) : outKs[p] \in Range(inKs) => out[p] = ins[LastIndex(inKs, outKs[p])]

\* out is the sequence ins collapsed by key: one entry per key, in the order
\* of the keys' first occurrence, each the last entry with its key.
CollapsedByKey(out, outKs, ins, inKs) ==
  /\ Distinct(outKs)
  /\ Range(outKs) = Range(inKs)
  /\ FirstOccurrenceOrder(outKs, inKs)
  /\ LastOccurrenceStored(out, outKs, ins, inKs)

-----------------------------------------------------------------------------
(* Properties *)

\* C1: whenever mergeRates returns, its output holds no two entries with the
\* same identity key (normalized amount, trimmed unit compared ignoring case).
C1_NoDuplicateRateKey ==
  RatesReturned => Distinct(RateKeys(result.value))

\* C1 witness: a returned merge whose inputs held the same key twice, in
\* existing and in incoming, besides another key.
C1_Witness ==
  /\ RatesReturned
  /\ Len(result.value) >= 2
  /\ \E i \in 1..Len(existing), j \in 1..Len(incoming) :
       /\ ~IsNullish(incoming[j])
       /\ ~IsEmptyRate(incoming[j])
       /\ RateIdentity(existing[i]) = RateIdentity(incoming[j])
       /\ existing[i] # incoming[j]

\* C2: merging the same incoming array into the result of a first merge gives
\* that result again: same entries, same order, same amounts and units.
C2_RatesIdempotent ==
  (fn = "mergeRates" /\ pc = "remerged") => (~again.threw /\ again.value = result.value)

\* C2 witness: a second merge over a result in which incoming overwrote an
\* existing entry and added a new one.
C2_Witness ==
  /\ fn = "mergeRates"
  /\ pc = "remerged"
  /\ Len(again.value) >= 2
  /\ Len(InsertedRates(incoming)) = 2
  /\ \E k \in Range(RateKeys(InsertedRates(incoming))) : k \in Range(RateKeys(existing))
  /\ \E k \in Range(RateKeys(InsertedRates(incoming))) : k \notin Range(RateKeys(existing))

\* C3: the entry stored under a key that occurs in incoming is the normalized
\* last incoming entry with that key; under a key that occurs only in
\* existing, the normalized last existing entry with that key.  Every key
\* that reaches the map is stored.
C3_LastWriteWins ==
  RatesReturned =>
    LET out == result.value
        outKs == RateKeys(out)
        exKs == RateKeys(existing)
        exNorm == NormalizedRates(existing)
        inObjs == SelectSeq(incoming, LAMBDA r : ~IsNullish(r))
        inKs == RateKeys(inObjs)
        inNorm == NormalizedRates(inObjs)
        insKs == RateKeys(InsertedRates(incoming))
    IN /\ Range(outKs) = Range(exKs) \cup Range(insKs)
       /\ \A p \in 1..Len(out) :
            IF outKs[p] \in Range(inKs)
            THEN out[p] = inNorm[LastIndex(inKs, outKs[p])]
            ELSE out[p] = exNorm[LastIndex(exKs, outKs[p])]

\* C3 witness: two incoming entries with one key and different spellings,
\* over an existing entry with that key.
C3_Witness ==
  /\ RatesReturned
  /\ Len(incoming) = 2
  /\ Len(InsertedRates(incoming)) = 2
  /\ RateIdentity(incoming[1]) = RateIdentity(incoming[2])
  /\ NormalizedRate(incoming[1]) # NormalizedRate(incoming[2])
  /\ RateIdentity(incoming[2]) \in Range(RateKeys(existing))
  /\ \E p \in 1..Len(result.value) : result.value[p] = NormalizedRate(incoming[2])

\* C4: the output keeps insertion order: the keys of existing first, by
\* first occurrence, then the keys new in incoming, by first occurrence;
\* an overwritten key stays where it was.  (The keys of incoming are those
\* of the entries that reach the map: not null, undefined or empty.)
C4_InsertionOrder ==
  RatesReturned =>
    LET outKs == RateKeys(result.value)
        allKs == RateKeys(existing) \o RateKeys(InsertedRates(incoming))
    IN /\ Range(outKs) = Range(allKs)
       /\ FirstOccurrenceOrder(outKs, allKs)

\* C4 witness: incoming overwrites the first of two existing keys and adds a
\* new key; the overwritten entry is still first and the new one last.
C4_Witness ==
  /\ RatesReturned
  /\ Len(result.value) = 3
  /\ Len(existing) = 2
  /\ Len(incoming) = 2
  /\ Len(InsertedRates(incoming)) = 2
  /\ \E j \in 1..2 :
       /\ RateIdentity(incoming[j]) = RateIdentity(existing[1])
       /\ NormalizedRate(incoming[j]) # NormalizedRate(existing[1])
  /\ RateIdentity(result.value[1]) = RateIdentity(existing[1])
  /\ RateIdentity(result.value[3]) \notin Range(RateKeys(existing))

\* The spec's example.
ExampleExisting == <<Rate(Num(150), Str(S_night))>>
ExampleIncoming == <<Rate(Num(150), Str(S_Night)), Rate(Num(20), Str(S_person))>>

\* C5: an incoming rate with the amount of an existing rate and a unit that
\* differs from it only in letter case shares one output entry with it, at
\* the existing entry's position and with the incoming spelling; existing
\* [{150,"night"}] with incoming [{150,"Night"},{20,"person"}] gives exactly
\* [{150,"Night"},{20,"person"}].
C5_CaseInsensitiveKey ==
  RatesReturned =>
    LET out == result.value
        outKs == RateKeys(out)
        exKs == RateKeys(existing)
        ins == InsertedRates(incoming)
        insKs == RateKeys(ins)
    IN /\ (existing = ExampleExisting /\ incoming = ExampleIncoming) => out = ExampleIncoming
       /\ \A j \in 1..Len(ins) :
            (insKs[j] \in Range(exKs) /\ j = LastIndex(insKs, insKs[j]))
              => /\ Cardinality({p \in 1..Len(out) : outKs[p] = insKs[j]}) = 1
                 /\ LET p == Cardinality({exKs[m] : m \in 1..FirstIndex(exKs, insKs[j])})
                    IN /\ p <= Len(out)
                       /\ outKs[p] = insKs[j]
                       /\ out[p].unit = normStr(ins[j].unit)
                       /\ out[p].amount = normNum(ins[j].amount)

\* C5 witness: the spec's example has been merged.
C5_Witness ==
  /\ RatesReturned
  /\ existing = ExampleExisting
  /\ incoming = ExampleIncoming
  /\ result.value = <<Rate(Num(150), Str(S_Night)), Rate(Num(20), Str(S_person))>>

\* C6 as stated: merging an empty incoming array returns existing with each
\* entry normalized and only the empty entries removed, for rates and tags.
C6_EmptyIncomingDropsOnlyEmpty ==
  /\ (RatesReturned /\ incoming = <<>>) =>
       result.value = NormalizedRates(SelectSeq(existing, LAMBDA r : ~IsEmptyRate(r)))
  /\ (TagsReturned /\ incoming = <<>>) =>
       result.value = NormalizedTags(SelectSeq(existing, LAMBDA e : ~IsEmptyTag(e)))

\* C6 amended: merging an empty incoming array returns existing normalized
\* with the entries of one identity key collapsed into one (the last of
\* them, at the position of the first) and nothing else removed, except
\* that mergeTags also removes the empty-label entries; mergeRates keeps an
\* empty existing entry.
C6_EmptyIncomingCollapsesByKey ==
  /\ (RatesReturned /\ incoming = <<>>) =>
       LET exKs == RateKeys(existing)
       IN /\ CollapsedByKey(result.value, RateKeys(result.value),
                            NormalizedRates(existing), exKs)
          /\ Distinct(exKs) => result.value = NormalizedRates(existing)
  /\ (TagsReturned /\ incoming = <<>>) =>
       LET kept == SelectSeq(existing, LAMBDA e : ~IsEmptyTag(e))
           keptKs == TagKeys(kept)
       IN /\ CollapsedByKey(result.value, TagKeys(result.value),
                            NormalizedTags(kept), keptKs)
          /\ Distinct(keptKs) => result.value = NormalizedTags(kept)

\* C6 witness: an empty incoming array merged into existing rates that hold
\* an empty entry, which the output keeps.
C6_Witness ==
  /\ RatesReturned
  /\ incoming = <<>>
  /\ Len(existing) = 2
  /\ \E i \in 1..2 : IsEmptyRate(existing[i])
  /\ \E p \in 1..Len(result.value) : IsEmptyRate(result.value[p])
  /\ Len(result.value) = 2

\* A numeric-like amount: a number, or a string that reads as one.
IsNumericLike(v) ==
  \/ v.t = "number"
  \/ v.t = "string" /\ v # Str(<<>>) /\ StringToNumber(v.s).t = "number"

\* An amount that is present and is not a valid number.
IsInvalidNumber(v) ==
  \/ v.t = "NaN"
  \/ v.t = "string" /\ v # Str(<<>>) /\ StringToNumber(v.s).t # "number"

\* C7: in the output of mergeRates / mergeTags every unit and label is
\* trimmed and every amount is a number or null; a numeric-like amount is
\* stored as the number and an amount that is not a valid number as null.
C7_NormalizedOutput ==
  /\ RatesReturned =>
       LET out == result.value
           all == existing \o InsertedRates(incoming)
       IN /\ \A p \in 1..Len(out) :
               /\ out[p].unit.t = "string"
               /\ trim(out[p].unit.s) = out[p].unit.s
               /\ out[p].amount.t \in {"number", "null"}
          /\ \A i \in 1..Len(all) :
               /\ IsNumericLike(all[i].amount) =>
                    \E p \in 1..Len(out) :
                      /\ out[p].amount.t = "number"
                      /\ RateIdentity(out[p]) = RateIdentity(all[i])
               /\ (IsInvalidNumber(all[i].amount) /\ normStr(all[i].unit).s # <<>>) =>
                    \E p \in 1..Len(out) :
                      /\ out[p].amount = JSNull
                      /\ toLowerCase(out[p].unit.s) = toLowerCase(trim(normStr(all[i].unit).s))
  /\ TagsReturned =>
       \A p \in 1..Len(result.value) :
         /\ result.value[p].label.t = "string"
         /\ trim(result.value[p].label.s) = result.value[p].label.s

\* C8: a null, undefined or empty incoming rate contributes nothing: the
\* output holds an empty entry only if existing held one, and the merge
\* equals the merge of incoming with such entries removed.
C8_SkipOnEmptyIncoming ==
  RatesReturned =>
    LET out == result.value
        kept == InsertedRates(incoming)
    IN /\ (\E p \in 1..Len(out) : IsEmptyRate(out[p]))
            => \E i \in 1..Len(existing) : IsEmptyRate(existing[i])
       /\ Range(RateKeys(out)) = Range(RateKeys(existing)) \cup Range(RateKeys(kept))
       /\ Return(out) = mergeRates(existing, kept)

\* C8 witness: incoming holds a skipped entry and a kept one, existing holds
\* no empty entry, and the output holds the kept one only.
C8_Witness ==
  /\ RatesReturned
  /\ Len(incoming) = 2
  /\ Len(InsertedRates(incoming)) = 1
  /\ \E j \in 1..2 : ~IsNullish(incoming[j]) /\ IsEmptyRate(incoming[j])
  /\ Len(existing) = 1
  /\ ~IsEmptyRate(existing[1])
  /\ Len(result.value) = 2

\* C9: whenever mergeTags returns, its output holds no two labels that are
\* equal ignoring case and no label that is empty after trimming.
C9_TagsDistinctNonEmpty ==
  TagsReturned =>
    /\ Distinct(TagKeys(result.value))
    /\ \A p \in 1..Len(result.value) : trim(result.value[p].label.s) # <<>>

\* C9 witness: existing and incoming hold case variants of one label and
\* empty labels; one entry comes out.
C9_Witness ==
  /\ TagsReturned
  /\ Len(existing) = 2
  /\ Len(incoming) = 2
  /\ \E i \in 1..2 : IsEmptyTag(existing[i])
  /\ \E j \in 1..2 : ~IsNullish(incoming[j]) /\ IsEmptyTag(incoming[j])
  /\ Len(InsertedTags(existing)) = 1
  /\ Len(InsertedTags(incoming)) = 1
  /\ TagIdentity(InsertedTags(existing)[1]) = TagIdentity(InsertedTags(incoming)[1])
  /\ NormalizedTag(InsertedTags(existing)[1]) # NormalizedTag(InsertedTags(incoming)[1])
  /\ Len(result.value) = 1

\* C10: mergeTags lists the non-empty existing keys by first occurrence, then
\* the keys new in incoming, each with the trimmed label of its last
\* occurrence (an incoming spelling replaces an existing case variant), and
\* merging the same incoming array again changes nothing.
C10_TagsSameAlgorithm ==
  /\ TagsReturned =>
       LET all == InsertedTags(existing) \o InsertedTags(incoming)
       IN CollapsedByKey(result.value, TagKeys(result.value), NormalizedTags(all), TagKeys(all))
  /\ (fn = "mergeTags" /\ pc = "remerged") => (~again.threw /\ again.value = result.value)

\* C10 witness: a second merge after incoming replaced the spelling of the
\* first existing label and added a new label behind the existing ones.
C10_Witness ==
  /\ fn = "mergeTags"
  /\ pc = "remerged"
  /\ Len(existing) = 2
  /\ Len(incoming) = 2
  /\ Len(InsertedTags(existing)) = 2
  /\ Len(InsertedTags(incoming)) = 2
  /\ Len(result.value) = 3
  /\ TagIdentity(result.value[1]) = TagIdentity(existing[1])
  /\ result.value[1] # NormalizedTag(existing[1])
  /\ TagIdentity(result.value[3]) \notin Range(TagKeys(existing))
  /\ again.value = result.value

-----------------------------------------------------------------------------
(* Properties of mergeRepeatable *)

NotesReturned == fn = "mergeRepeatable" /\ pc = "returned" /\ ~result.threw

\* An entry with its listed fields trimmed and nothing else.
NormalizedNote(e) ==
  Note(IF e.title = JSUndefined THEN JSUndefined ELSE normStr(e.title),
       IF e.description = JSUndefined THEN JSUndefined ELSE normStr(e.description))

RECURSIVE NormalizedNotes(_)
NormalizedNotes(seq) ==
  IF seq = <<>> THEN <<>> ELSE <<NormalizedNote(Head(seq))>> \o NormalizedNotes(Tail(seq))

\* The entry has at least one of the listed fields.
HasListedField(e) == e.title # JSUndefined \/ e.description # JSUndefined

\* Every listed field of the entry is empty after trimming (or absent).
AllFieldsEmpty(e) == normStr(e.title).s = <<>> /\ normStr(e.description).s = <<>>

ExampleNoteA == <<Note(Str(S_A), Str(S_x))>>
ExampleNoteB == <<Note(Str(S_B), Str(S_y))>>

\* C11: whenever mergeRepeatable returns: if a normalized incoming entry
\* remains after the filter, the result is exactly the remaining normalized
\* incoming entries, in order; otherwise it is existing with each entry
\* normalized, in order and of the same length.  [{A,x}] with [] gives
\* [{A,x}], and with [{B,y}] gives exactly [{B,y}].
C11_FullReplaceWhenPresent ==
  NotesReturned =>
    LET remaining == NormalizedNotes(SelectSeq(incoming, HasListedField))
    IN /\ remaining # <<>> => result.value = remaining
       /\ remaining = <<>> =>
            /\ result.value = NormalizedNotes(existing)
            /\ Len(result.value) = Len(existing)
       /\ (existing = ExampleNoteA /\ incoming = <<>>) => result.value = ExampleNoteA
       /\ (existing = ExampleNoteA /\ incoming = ExampleNoteB) => result.value = ExampleNoteB

\* C11 witness: two existing entries replaced by the one incoming entry that
\* remains of two.
C11_Witness ==
  /\ NotesReturned
  /\ Len(existing) = 2
  /\ \A i \in 1..2 : ~IsNullish(existing[i])
  /\ Len(incoming) = 2
  /\ Len(SelectSeq(incoming, HasListedField)) = 1
  /\ Len(result.value) = 1
  /\ result.value # NormalizedNotes(existing)
  /\ \A i \in 1..2 : NormalizedNote(existing[i]) # result.value[1]

\* C12: an incoming entry whose listed fields are all empty after trimming is
\* filtered out: none appears in the result when incoming replaces existing,
\* and when incoming holds only such entries the normalized existing
\* collection is returned.
C12_BlankIncomingFiltered ==
  NotesReturned =>
    /\ (\A j \in 1..Len(incoming) : AllFieldsEmpty(incoming[j]))
          => result.value = NormalizedNotes(existing)
    /\ (\E j \in 1..Len(incoming) : ~AllFieldsEmpty(incoming[j]))
          => \A p \in 1..Len(result.value) : ~AllFieldsEmpty(result.value[p])

\* C15: mergeRates, mergeTags and mergeRepeatable never throw: every call
\* returns a sequence, also when an argument holds null or undefined entries.
C15_NeverThrows ==
  pc = "returned" => ~result.threw

-----------------------------------------------------------------------------
(* Properties of arraysEqual and of the payload's repeatable components *)

\* The fields of an object with their values, whatever order they were
\* written in.
Fields(o) == {<<o.props[i].k, o.props[i].v>> : i \in 1..Len(o.props)}

\* Two collections of objects have the same length and, at every position,
\* entries with the same fields holding the same values.
StructurallyEqual(a, b) ==
  /\ Len(a) = Len(b)
  /\ \A i \in 1..Len(a) : Fields(a[i]) = Fields(b[i])

\* C13: arraysEqual returns true if and only if the two collections have the
\* same length and, at every position, entries with the same fields holding
\* the same values, whatever the order in which the fields were written.
C13_StructuralEquality ==
  (fn = "arraysEqual" /\ pc = "returned")
    => (result.value <=> StructurallyEqual(existing, incoming))

\* C14: once the repeatable components are built, a field is in the payload
\* only if its merged collection differs from the collection stored on the
\* place (no-op writes are skipped).
C14_NoOpWritesSkipped ==
  epc = "done" =>
    \A f \in RepeatableFields :
      IsArray(payload[f]) => ~StructurallyEqual(payload[f].elems, current[f])

-----------------------------------------------------------------------------
(* Properties of syncPlace *)

\* C17: a call sends at most one write request, and exactly one when it
\* returns; a write is a PUT when the CMS holds a place with the slug and a
\* POST only when it holds none; the CMS holds at most one place per slug.
C17_UpsertBySlug ==
  /\ Len(swrites) <= 1
  /\ spc = "returned" => Len(swrites) = 1
  /\ \A i \in 1..Len(swrites) : (swrites[i].method = "PUT") <=> swrites[i].existed
  /\ \A s \in Slugs : cms[s] <= 1

-----------------------------------------------------------------------------
(* Properties of batchAddPlaces *)

\* Positions of the steps recorded for the entry at index i.
Positions(e, i) == {p \in 1..Len(events) : events[p].e = e /\ events[p].idx = i}
Happened(e, i) == Positions(e, i) # {}
Indexes == 0..(Len(places) - 1)

\* Every step of kind a on entry i comes after a step of kind b on entry i.
Follows(a, b, i) ==
  \A p \in Positions(a, i) : \E q \in Positions(b, i) : q < p

\* The trimmed slug of the entry at index i, and the folder of its harvest.
SlugAt(i) == trimOrEmpty(places[i + 1].slug)
FolderAt(i) == FolderOf(trimOrEmpty(places[i + 1].google_place_id))

\* The calls of the three stages and the ways a place fails.
StageCalls == {"harvest", "sync", "enrich"}
FailureReason ==
  [harvestThrew |-> "harvest failed",
   noPhotos |-> "no photos downloaded during harvest",
   syncThrew |-> "sync failed",
   enrichThrew |-> "enrich failed"]

Ended(i) == idx > i

\* The entry's last recorded step is the one call of sleep(BATCH_DELAY_MS).
SleptOnce(i) ==
  /\ Cardinality(Positions("sleep", i)) = 1
  /\ \A p \in Positions("sleep", i) :
       /\ events[p].ms = BATCH_DELAY_MS
       /\ \A q \in 1..Len(events) : events[q].idx = i => q <= p

\* C20: after the processing of every entry ends, whatever the outcome
\* (success, failure or skip), the script sleeps BATCH_DELAY_MS once before
\* the next entry starts.
C20_DelayAfterEveryEntry ==
  \A i \in Indexes : Ended(i) => SleptOnce(i)

\* C20, amended: an entry for which harvestPlace was called is followed by
\* one sleep of BATCH_DELAY_MS whatever the outcome, and an entry rejected
\* before the harvest (missing slug, duplicate slug, missing
\* google_place_id) is followed by none.
C20_DelayAfterHarvestedEntry ==
  \A i \in Indexes :
    Ended(i) => IF Happened("harvest", i)
                THEN SleptOnce(i)
                ELSE Positions("sleep", i) = {}

\* A batch in which one entry was skipped and one failed at harvest.
C20_Witness ==
  /\ bpc = "done"
  /\ \E i, j \in Indexes :
       /\ Happened("skip", i)
       /\ Happened("harvestThrew", j)
       /\ Happened("sleep", j)

\* Entry i has a slug that an earlier entry of the batch already had.
IsDuplicate(i) ==
  /\ SlugAt(i) # <<>>
  /\ \E j \in Indexes : j < i /\ SlugAt(j) = SlugAt(i)

\* Entry i went through harvest, the photo check, sync and enrich without
\* an error.
AllStagesPassed(i) ==
  /\ Happened("harvested", i) /\ FolderAt(i) \in disk
  /\ Happened("synced", i)
  /\ Happened("completed", i)
  /\ \A k \in DOMAIN FailureReason : ~Happened(k, i)

\* C26: when the loop has ended, successes, failure records and skipped
\* duplicates add up to the number of entries, and the successes are the
\* entries for which every stage passed.
C26_OutcomeAccounting ==
  bpc = "done" =>
    /\ successCount + Len(failures) + Cardinality({i \in Indexes : IsDuplicate(i)}) = total
    /\ successCount = Cardinality({i \in Indexes : AllStagesPassed(i)})
    /\ \A i \in Indexes : Happened("completed", i) => AllStagesPassed(i)

\* A finished batch with one success, one failure and one skipped duplicate.
C26_Witness ==
  /\ bpc = "done"
  /\ successCount = 1
  /\ Len(failures) = 1
  /\ \E i \in Indexes : IsDuplicate(i)

\* C27: harvestPlace is called for at most one entry per trimmed slug, and
\* an entry whose slug was met before is skipped without any stage call,
\* whatever happened to the first entry with that slug.
C27_OncePerSlug ==
  /\ \A i, j \in Indexes :
       (i # j /\ Happened("harvest", i) /\ Happened("harvest", j)) => SlugAt(i) # SlugAt(j)
  /\ \A i \in Indexes :
       (IsDuplicate(i) /\ Ended(i)) =>
         /\ \A e \in StageCalls : ~Happened(e, i)
         /\ Happened("skip", i)

\* A later entry has the slug of a first entry that lacked a
\* google_place_id, has an id itself, and was skipped.
C27_Witness ==
  /\ bpc = "done"
  /\ \E i, j \in Indexes :
       /\ i < j
       /\ SlugAt(i) = SlugAt(j) /\ SlugAt(i) # <<>>
       /\ trimOrEmpty(places[i + 1].google_place_id) = <<>>
       /\ trimOrEmpty(places[j + 1].google_place_id) # <<>>
       /\ places[i + 1].slug # places[j + 1].slug
       /\ Happened("skip", j)

-----------------------------------------------------------------------------
(* Properties of parsePlacesBlocks *)

RECURSIVE ConcatPlaces(_)
\* The places of the well-formed pieces, in file order.
ConcatPlaces(ps) ==
  IF ps = <<>> THEN <<>>
  ELSE (IF Head(ps).wellFormed THEN Head(ps).places ELSE <<>>) \o ConcatPlaces(Tail(ps))

Malformed(ps) == {n \in 1..Len(ps) : ~ps[n].wellFormed}

\* C21: for a file of well-formed JSON objects written one after another,
\* the split gives exactly the objects' texts in file order, and
\* parsePlacesBlocks gives the places of all the blocks in order.
C21_SplitsWellFormedFile ==
  (ppc = "returned" /\ Malformed(pieces) = {}) =>
    /\ blocks = [n \in 1..Len(pieces) |-> pieces[n].text]
    /\ results = ConcatPlaces(pieces)

\* A file of three blocks, with a brace and an escaped quote inside string
\* literals, was split and read.
C21_Witness ==
  /\ ppc = "returned"
  /\ Len(pieces) = 3 /\ Malformed(pieces) = {}
  /\ \E n \in 1..3 : pieces[n].places = <<PlaceValue(<<"x", "}">>)>>
  /\ \E n \in 1..3 : pieces[n].places = <<PlaceValue(<<"\"", "{">>)>>
  /\ Len(results) >= 3

\* C24: with one malformed piece among well-formed blocks, the places of
\* every well-formed block, before and after it, are returned.
C24_MalformedBlockIsolated ==
  (ppc = "returned" /\ Cardinality(Malformed(pieces)) = 1) =>
    results = ConcatPlaces(pieces)

-----------------------------------------------------------------------------
(* Properties of batchUpdateEnrichment *)

\* The places of the CMS that the item at position i identifies, by its
\* google place id or by its slug.
Identified(i) ==
  {p \in UpdateCms :
     \/ p.place_id = googleId(placeItems[i])
     \/ p.slug = placeItems[i].slug}

\* The requests of a method sent for the item at position i.
RequestsOf(i, method) ==
  {k \in 1..Len(requests) : requests[k].i = i /\ requests[k].method = method}

\* The CMS answered every lookup of the item at position i.
LookupsAnswered(i) ==
  \A k \in RequestsOf(i, "GET") : requests[k].answer \in {"data", "empty"}

NoIdentifier(i) == googleId(placeItems[i]) = "" /\ placeItems[i].slug = ""

\* C22: every item whose google place id or slug identifies a place of the
\* CMS is found, whichever of the two identifiers matches: once the item is
\* processed (its lookups answered, its payload not empty) an update was sent
\* to a place it identifies.  An item with neither identifier sends no
\* request and is recorded as failed with "missing identifier".
C22_FoundByEitherIdentifier ==
  /\ \A i \in 1..Len(placeItems) :
       (i < ui /\ Identified(i) # {} /\ placeItems[i].enriched /\ LookupsAnswered(i))
         => \E k \in RequestsOf(i, "PUT") :
              requests[k].val \in {p.documentId : p \in Identified(i)}
  /\ \A i \in 1..Len(placeItems) :
       (i < ui /\ NoIdentifier(i))
         => RequestsOf(i, "GET") \cup RequestsOf(i, "PUT") = {}
  /\ Cardinality({k \in 1..Len(failed) : failed[k].reason = "missing identifier"})
       = Cardinality({i \in 1..Len(placeItems) : i < ui /\ NoIdentifier(i)})

\* C23: the script cannot hang: whatever the CMS does, and even when it never
\* answers a request, the loop ends and the summary is printed.
C23_SummaryEventuallyPrinted == <>(upc = "summary")

-----------------------------------------------------------------------------
(* Properties of the update of enrichDocuments *)

\* The elements of an array.
Elements(seq) == {seq[k] : k \in 1..Len(seq)}

NoDuplicate(seq) == \A j, k \in 1..Len(seq) : seq[j] = seq[k] => j = k

\* The documentIds / the numeric ids of the amenities an item asks for, and
\* those of the amenities a place is linked to.
WantedDocIds(it) ==
  {amenityMap[s].documentId : s \in Elements(it.amenities) \cap AmenitySlugs} \ {""}
WantedIds(it) ==
  {amenityMap[s].id : s \in Elements(it.amenities) \cap AmenitySlugs} \ {0}
LinkedDocIds(linked) == {a.documentId : a \in Elements(linked)} \ {""}
LinkedIds(linked) == {a.id : a \in Elements(linked)} \ {0}

\* The PUTs of a kind sent for the item at position i.
PutsOf(i, kind) == {k \in 1..Len(puts) : puts[k].i = i /\ puts[k].kind = kind}

OkPut(p) == p.answer = "ok"

\* C25: connect then fallback.  When an item asks for amenities the place is
\* not yet linked to, the first PUT carries amenities as { connect: [their
\* documentIds] }.  A fallback PUT is sent if and only if the first PUT
\* failed, once, to the same place, with the same payload except that
\* amenities is the duplicate-free union of the linked numeric ids and the
\* numeric ids to connect.  When the fallback fails too the call throws
\* without a third PUT and without adding the slug to the updated list.
C25_ConnectThenFallback ==
  /\ \A k \in 1..Len(puts) :
       LET p == puts[k]
           it == enrichment[p.i]
       IN /\ p.kind = "direct" =>
               /\ WantedDocIds(it) \ LinkedDocIds(p.linked) # {} =>
                    /\ p.payload.amenities.t = "connect"
                    /\ Elements(p.payload.amenities.connect)
                         = WantedDocIds(it) \ LinkedDocIds(p.linked)
               /\ p.answer = "rejected" <=> PutsOf(p.i, "fallback") = {k + 1}
               /\ p.answer # "rejected" => PutsOf(p.i, "fallback") = {}
               /\ PutsOf(p.i, "direct") = {k}
          /\ p.kind = "fallback" =>
               /\ k > 1
               /\ puts[k - 1].kind = "direct" /\ puts[k - 1].i = p.i
               /\ puts[k - 1].answer = "rejected"
               /\ p.documentId = puts[k - 1].documentId
               /\ p.payload.keys = puts[k - 1].payload.keys
               /\ puts[k - 1].payload.amenities.t = "connect" =>
                    /\ p.payload.amenities.t = "array"
                    /\ NoDuplicate(p.payload.amenities.ids)
                    /\ Elements(p.payload.amenities.ids)
                         = LinkedIds(p.linked) \cup (WantedIds(it) \ LinkedIds(p.linked))
               /\ puts[k - 1].payload.amenities.t # "connect" =>
                    p.payload.amenities = puts[k - 1].payload.amenities
               /\ p.answer = "rejected" => dpc = "threw" /\ k = Len(puts)
  /\ Len(updatedSlugs) = Len(SelectSeq(puts, OkPut))

\* A fallback PUT with the union of the ids was sent and failed: the call
\* threw, after another item was updated by its fallback.
C25_Witness ==
  /\ dpc = "threw"
  /\ Len(puts) = 4
  /\ puts[2].kind = "fallback" /\ puts[2].answer = "ok"
  /\ puts[4].kind = "fallback" /\ puts[4].answer = "rejected"
  /\ puts[4].payload.amenities.t = "array"
  /\ Len(puts[4].payload.amenities.ids) = 2
  /\ Len(updatedSlugs) = 1

\* C28: no PUT is sent for an item without a slug, for an item whose slug
\* matches no place of the CMS, or for an item whose payload has no key, and
\* the updated list holds exactly the slugs of the items of which a PUT,
\* direct or fallback, succeeded: one entry per such item, in processing
\* order.
C28_UpdatedListExact ==
  /\ \A k \in 1..Len(puts) :
       LET it == enrichment[puts[k].i]
       IN /\ it.slug # ""
          /\ Matching("slug", it.slug) # {}
          /\ ~(it.rest = {} /\ WantedDocIds(it) \subseteq LinkedDocIds(puts[k].linked))
  /\ LET ok == SelectSeq(puts, OkPut)
     IN /\ Len(updatedSlugs) = Len(ok)
        /\ \A k \in 1..Len(ok) : updatedSlugs[k] = enrichment[ok[k].i].slug
        /\ \A j, k \in 1..Len(ok) : j < k => ok[j].i < ok[k].i

\* The call returned a list of one slug after two items: one skipped, the
\* other updated by its fallback PUT.
C28_Witness ==
  /\ dpc = "returned"
  /\ Len(enrichment) = 2
  /\ Len(updatedSlugs) = 1
  /\ Len(puts) = 2
  /\ puts[2].kind = "fallback" /\ puts[2].i = 2

-----------------------------------------------------------------------------
(* Properties of the photos of syncPlace *)

\* The uploads that succeeded, in the order of place.json.
UploadedOnes(u) == u.outcome = "uploaded"

\* C29: a photo that is missing on disk or whose upload fails does not
\* abort the sync: the call throws only after the loop went through every
\* photo, and the save request carries the photos that were uploaded, in the
\* order of place.json.  cover_photo is set only when the first listed photo
\* was uploaded, and it is then the image of the first element of photos.
C29_PhotosAndCover ==
  /\ phpc = "threw" => photoIndex > Len(harvestedPhotos)
  /\ \A k \in 1..Len(uploads) : uploads[k].index = k
  /\ \A k \in 1..Len(saves) :
       LET p == saves[k].payload
           done == SelectSeq(uploads, UploadedOnes)
       IN /\ Len(uploads) = Len(harvestedPhotos)
          /\ Len(p.photos) = Len(done)
          /\ \A j \in 1..Len(done) :
               /\ p.photos[j].image = done[j].id
               /\ p.photos[j].attribution = harvestedPhotos[done[j].index].attribution_text
          /\ p.cover_photo # 0 =>
               /\ uploads[1].outcome = "uploaded"
               /\ p.cover_photo = p.photos[1].image

\* The first photo was uploaded and the second was not: the place is saved
\* with one photo, which is the cover.
C29_Witness ==
  /\ phpc = "returned"
  /\ Len(uploads) = 2
  /\ uploads[1].outcome = "uploaded"
  /\ uploads[2].outcome \in {"missing", "failed"}
  /\ Len(saves) = 1
  /\ saves[1].payload.cover_photo = saves[1].payload.photos[1].image
====
